---- MODULE Spec2Model ----
(***************************************************************************)
(* The weighbridge bot: its weight extraction pipeline (src/ocr_utils.py)  *)
(* and its dialog (src/app.py, src/database.py).                           *)
(*                                                                         *)
(* Texts are sequences of one-character strings.  A weight is an integer   *)
(* number of kilograms (the code's floats are always integral: they come   *)
(* from float() of a digit string); Python's None is the value None.       *)
(*                                                                         *)
(* Ten specifications:                                                     *)
(*   Spec      - one process serving extract_weight_from_image requests,   *)
(*               stage by stage, with every backend's answer an input;     *)
(*   FairSpec  - the same process, every backend call returning or raising;*)
(*   ParseSpec - _parse_weight applied to every text of a bounded set;     *)
(*   SeparatorSpec - _parse_weight on numbers written with separators;     *)
(*   PaddleSpec - _extract_with_paddle applied to every answer of PaddleOCR *)
(*               of a bounded set;                                         *)
(*   DialogSpec - the dialog of src/app.py over the tables of              *)
(*               src/database.py, one message handled per step.            *)
(*   SoloSpec  - the same dialog with one driver's phone only;             *)
(*   WeighingSpec - save_weighing called directly, several rows per truck; *)
(*   PairSpec  - the dialog of two drivers who name the same truck, up to  *)
(*               MaxPairRows weighing rows;                                *)
(*   RaceSpec  - two requests of one driver served by two threads that     *)
(*               interleave between database calls.                        *)
(***************************************************************************)
EXTENDS Integers, Sequences, FiniteSets, TLC

VARIABLES
    MIN_WEIGHT,          \* ocr_utils.MIN_WEIGHT (environment, fixed at import)
    MAX_WEIGHT,          \* ocr_utils.MAX_WEIGHT
    PADDLE_AVAILABLE,    \* module flags fixed at import
    TESSERACT_AVAILABLE,
    OPENAI_AVAILABLE,
    pc,                  \* position inside extract_weight_from_image
    image,               \* what loading the photo gave
    details,             \* the details dict of the running call
    ret,                 \* what the call returned: [weight, status]
    escaped,             \* an exception left extract_weight_from_image
    calls,               \* history: the backend invocations of this call
    exc,                 \* history: the exception that reached the except clause
    ptext,               \* ParseSpec: the text given to _parse_weight
    pout,                \* PaddleSpec: the answer of PaddleOCR to _extract_with_paddle
    presult,             \* what the function under ParseSpec or PaddleSpec returned
    ppc,                 \* "input" | "parsed" (ParseSpec), "answer" | "read" (PaddleSpec)
    drivers,             \* table drivers, keyed by phone
    user_states,         \* table user_states, keyed by phone
    weighings,           \* table weighings, in insertion order
    vehicles,            \* table vehicles, keyed by truck number
    progress,            \* history: how far each phone's report script has come
    last,                \* history: the last message handled and what it met
    race                 \* RaceSpec: two deliveries of one phone handled side by side

config == <<MIN_WEIGHT, MAX_WEIGHT, PADDLE_AVAILABLE, TESSERACT_AVAILABLE, OPENAI_AVAILABLE>>
pipeline == <<pc, image, details, ret, escaped, calls, exc>>
harness == <<ptext, pout, presult, ppc, race>>
dialog == <<drivers, user_states, weighings, vehicles, progress, last>>
vars == <<config, pipeline, harness, dialog>>

\* Python's None, as a weight (every weight is >= 0).
None == -1

\* No delivery is being handled beside another.
NoRace == [kind |-> "none"]

\* Values of this many or more are all represented by Huge (float() has no
\* such limit; every configured MAX_WEIGHT is below it).
Huge == 1000000000

(***************************************************************************)
(* Characters and the regular expressions of the parser.                   *)
(***************************************************************************)
Digit == {"0", "1", "2", "3", "4", "5", "6", "7", "8", "9"}

Whitespace == {" ", "\n"}

\* The character class [\d\.,\s] of re.findall in _parse_weight.
NumChar == Digit \cup {".", ","} \cup Whitespace

IsDigit(c) == c \in Digit

NotDot(c) == c # "."

NotComma(c) == c # ","

DigitValue(c) ==
    CASE c = "0" -> 0 [] c = "1" -> 1 [] c = "2" -> 2 [] c = "3" -> 3
      [] c = "4" -> 4 [] c = "5" -> 5 [] c = "6" -> 6 [] c = "7" -> 7
      [] c = "8" -> 8 [] c = "9" -> 9

HasDigit(s) == \E i \in 1..Len(s) : IsDigit(s[i])

\* str.strip(): leading and trailing whitespace removed.
RECURSIVE LStrip(_)
LStrip(s) == IF s # <<>> /\ Head(s) \in Whitespace THEN LStrip(Tail(s)) ELSE s

RECURSIVE RStrip(_)
RStrip(s) ==
    IF s # <<>> /\ s[Len(s)] \in Whitespace THEN RStrip(SubSeq(s, 1, Len(s) - 1)) ELSE s

Strip(s) == RStrip(LStrip(s))

\* float() of a non-empty string of ASCII digits.
RECURSIVE FloatFrom(_, _, _)
FloatFrom(s, i, acc) ==
    IF i > Len(s) THEN acc
    ELSE IF acc >= Huge \div 10 THEN Huge
    ELSE FloatFrom(s, i + 1, acc * 10 + DigitValue(s[i]))

Float(s) == FloatFrom(s, 1, 0)

\* re.findall(r'[cls]+', text): the maximal runs of characters of cls, in order.
RECURSIVE RunsFrom(_, _, _, _, _)
RunsFrom(cls, text, i, cur, acc) ==
    IF i > Len(text) THEN (IF cur = <<>> THEN acc ELSE Append(acc, cur))
    ELSE IF text[i] \in cls THEN RunsFrom(cls, text, i + 1, Append(cur, text[i]), acc)
    ELSE RunsFrom(cls, text, i + 1, <<>>, IF cur = <<>> THEN acc ELSE Append(acc, cur))

\* re.findall(r'[\d\.,\s]+', text)
FindNumberRuns(text) == RunsFrom(NumChar, text, 1, <<>>, <<>>)

\* re.findall(r"\d+", text)
FindDigitRuns(text) == RunsFrom(Digit, text, 1, <<>>, <<>>)

RECURSIVE SeqMax(_)
SeqMax(s) ==
    IF Len(s) = 1 THEN s[1]
    ELSE LET m == SeqMax(Tail(s)) IN IF s[1] >= m THEN s[1] ELSE m

(***************************************************************************)
(* _parse_weight                                                           *)
(***************************************************************************)
\* The part of a text before its first dot.
RECURSIVE BeforeDot(_)
BeforeDot(s) == IF s = <<>> \/ Head(s) = "." THEN <<>> ELSE <<Head(s)>> \o BeforeDot(Tail(s))

\* _clean_number_string, were a dot read as the decimal point and the
\* fraction dropped.
_clean_number_stringDecimal(s0) ==
    LET s == Strip(s0) IN
    IF s = <<>> \/ ~HasDigit(s) THEN None
    ELSE LET s4 == SelectSeq(BeforeDot(SelectSeq(s, NotComma)), IsDigit) IN
         IF s4 = <<>> THEN None ELSE Float(s4)

\* The inner _clean_number_string: the digits of one run, as a number.
_clean_number_string(s0) ==
    LET s == Strip(s0) IN
    IF s = <<>> \/ ~HasDigit(s) THEN None
    ELSE LET s4 == SelectSeq(SelectSeq(SelectSeq(s, NotDot), NotComma), IsDigit) IN
         IF s4 = <<>> THEN None ELSE Float(s4)

\* InRange, were the upper bound not tested.
InRangeNoUpper(val) == MIN_WEIGHT <= val

\* The range test of the candidate loop.
InRange(val) == MIN_WEIGHT <= val /\ val <= MAX_WEIGHT

\* The candidate loop: the in-range values of the runs, in order.
RECURSIVE Collect(_)
Collect(raw_numbers) ==
    IF raw_numbers = <<>> THEN <<>>
    ELSE LET val == _clean_number_string(Head(raw_numbers))
             rest == Collect(Tail(raw_numbers)) IN
         IF val # None /\ InRange(val) THEN <<val>> \o rest ELSE rest

\* Best, were the first candidate taken instead of the largest.
BestFirst(candidates) == candidates[1]

\* The choice among the candidates.
Best(candidates) == SeqMax(candidates)

_parse_weight(text) ==
    IF text = <<>> THEN [weight |-> None, candidates |-> <<>>]
    ELSE LET candidates == Collect(FindNumberRuns(text)) IN
         IF candidates # <<>> THEN [weight |-> Best(candidates), candidates |-> candidates]
         ELSE [weight |-> None, candidates |-> candidates]

(***************************************************************************)
(* The backends' answers.  An OCR answer is either an exception or a list  *)
(* of detections; a PaddleOCR detection carries a confidence in percent.   *)
(***************************************************************************)
Raise == [kind |-> "raise"]

Ok(v) == [kind |-> "ok", v |-> v]

\* One backend invocation, as the history records it.
Invocation(stage, out, weight) ==
    [stage |-> stage, raised |-> out.kind = "raise", weight |-> weight,
     empty |-> out.kind = "ok" /\ \A i \in 1..Len(out.v) :
                  IF stage = "paddle" THEN Strip(out.v[i].text) = <<>>
                  ELSE IF stage \in {"led_tesseract", "gpt"} THEN out.v[i] \in Whitespace
                  ELSE Strip(out.v[i]) = <<>>]

\* text + " " for every text of the list, concatenated.
RECURSIVE JoinWithSpace(_)
JoinWithSpace(texts) ==
    IF texts = <<>> THEN <<>> ELSE Head(texts) \o <<" ">> \o JoinWithSpace(Tail(texts))

\* The confidence a segment needs to count as numeric: conf >= 0.35.
ConfThreshold == 35

\* The detected_segments loop: (stripped text, conf) of every non-empty text.
RECURSIVE DetectedSegments(_)
DetectedSegments(items) ==
    IF items = <<>> THEN <<>>
    ELSE LET rest == DetectedSegments(Tail(items)) IN
         IF Head(items).text # <<>>
         THEN <<[text |-> Strip(Head(items).text), conf |-> Head(items).conf]>> \o rest
         ELSE rest

\* IsNumericSegment, were the confidence not looked at.
IsNumericSegmentAnyConf(seg) == HasDigit(seg.text)

\* The segments that go into numeric_concat.
IsNumericSegment(seg) == HasDigit(seg.text) /\ seg.conf >= ConfThreshold

SegText(segs) == [i \in 1..Len(segs) |-> segs[i].text]

\* _extract_with_paddle: (weight, candidates, all_text).
_extract_with_paddle(out) ==
    IF out.kind = "raise" \/ out.v = <<>>
    THEN [weight |-> None, candidates |-> <<>>, text |-> <<>>]
    ELSE LET detected == DetectedSegments(out.v)
             all_text == JoinWithSpace(SegText(detected))
             numeric_concat == JoinWithSpace(SegText(SelectSeq(detected, IsNumericSegment)))
             first == _parse_weight(numeric_concat)
             second == _parse_weight(all_text) IN
         IF numeric_concat # <<>> /\ first.weight # None
         THEN [weight |-> first.weight, candidates |-> first.candidates, text |-> all_text]
         ELSE [weight |-> second.weight, candidates |-> second.candidates, text |-> all_text]

NoParse == [weight |-> None, candidates |-> <<>>]

NonEmpty(t) == t # <<>>

\* _extract_with_cv2, the colour-isolated ROI given to PaddleOCR: the parse of
\* the collected detections.
LedPaddleResult(out) ==
    LET collected == IF out.kind = "ok" THEN JoinWithSpace(out.v) ELSE <<>> IN
    IF collected # <<>> THEN _parse_weight(collected) ELSE NoParse

\* _extract_with_cv2, the ROI given to Tesseract (one text line, digits only).
LedTesseractResult(out) ==
    IF out.kind = "ok" /\ out.v # <<>> THEN _parse_weight(out.v) ELSE NoParse

\* _extract_with_cv2, the per-glyph contours given to PaddleOCR one by one: a
\* contour whose call raises adds nothing to all_numbers.
ContoursResult(out) ==
    LET all_numbers == IF out.kind = "ok" THEN JoinWithSpace(SelectSeq(out.v, NonEmpty))
                       ELSE <<>> IN
    IF all_numbers # <<>> THEN _parse_weight(all_numbers) ELSE NoParse

\* _extract_with_tesseract: (weight, candidates, attempts_text).
_extract_with_tesseract(out) ==
    LET attempts_text == IF out.kind = "ok" THEN JoinWithSpace(SelectSeq(out.v, NonEmpty))
                         ELSE <<>>
        parsed == _parse_weight(attempts_text) IN
    [weight |-> parsed.weight, candidates |-> parsed.candidates, text |-> attempts_text]

\* str.upper(), on the letters the replies use.
UpperChar(c) ==
    CASE c = "n" -> "N" [] c = "o" -> "O" [] c = "e" -> "E"
      [] c = "k" -> "K" [] c = "g" -> "G" [] OTHER -> c

Upper(s) == [i \in 1..Len(s) |-> UpperChar(s[i])]

\* The range the disambiguator's answer is filtered by.
GPT_MIN == 100

GPT_MAX == 150000

GptInRange(v) == GPT_MIN <= v /\ v <= GPT_MAX

RECURSIVE GptCandidates(_)
GptCandidates(nums) ==
    IF nums = <<>> THEN <<>>
    ELSE LET v == Float(Head(nums)) IN
         IF GptInRange(v) THEN <<v>> \o GptCandidates(Tail(nums))
         ELSE GptCandidates(Tail(nums))

\* _gpt_assist_from_text: (weight, candidates).  The OCR text only goes
\* into the prompt; the reply is the service's.
_gpt_assist_from_text(text, reply) ==
    IF ~OPENAI_AVAILABLE \/ reply.kind = "raise" THEN NoParse
    ELSE LET gpt_text == Strip(reply.v) IN
         IF gpt_text = <<>> \/ Strip(Upper(gpt_text)) = <<"N", "O", "N", "E">> THEN NoParse
         ELSE LET candidates == GptCandidates(FindDigitRuns(gpt_text)) IN
              IF candidates # <<>>
              THEN [weight |-> SeqMax(candidates), candidates |-> candidates]
              ELSE NoParse

(***************************************************************************)
(* Bounds and the inputs drawn within them.                                *)
(***************************************************************************)
\* Detections in one backend answer.
MaxSegs == 2

\* Pieces in one text given to _parse_weight under ParseSpec.
MaxPieces == 4

\* (MIN_WEIGHT, MAX_WEIGHT): the code's defaults, and two other settings.
ConfPairs == {<<1, 150000>>, <<100, 150000>>, <<5000, 60000>>}

T23450 == <<"2", "3", "4", "5", "0">>

T12000 == <<"1", "2", "0", "0", "0">>

T999999 == <<"9", "9", "9", "9", "9", "9">>

T2345 == <<"2", "3", "4", "5">>

T120 == <<"1", "2", "0">>

T50 == <<"5", "0">>

Tkg == <<"k", "g">>

TNONE == <<"N", "O", "N", "E">>

TGrossWeight ==
    <<"g", "r", "o", "s", "s", " ", "w", "e", "i", "g", "h", "t", ":", " ">>

TBrutto ==
    <<"B", "R", "U", "T", "T", "O", " ", "2", "3", "4", "5", "0", " ", "K", "G">>

\* What PaddleOCR may read in one detection of the whole image.
OcrTexts == {T23450, T120, Tkg, TBrutto}

\* What a backend may read in one region or line.
RegionTexts == {T23450, T120}

RECURSIVE ListsUpTo(_, _)
ListsUpTo(S, n) ==
    IF n = 0 THEN {<<>>}
    ELSE LET shorter == ListsUpTo(S, n - 1) IN
         shorter \cup {Append(l, x) : l \in shorter, x \in S}

PaddleItems == [text : OcrTexts, conf : {0, 90}]

PaddleOutcomes == {Raise} \cup {Ok(l) : l \in ListsUpTo(PaddleItems, MaxSegs)}

OcrOutcomes == {Raise} \cup {Ok(l) : l \in ListsUpTo(RegionTexts, MaxSegs)}

LineOutcomes == {Raise} \cup {Ok(t) : t \in RegionTexts \cup {<<>>}}

GptReplies ==
    {Raise} \cup {Ok(t) : t \in {<<>>, TNONE, <<"n", "o", "n", "e", "\n">>, T23450, T120,
                                 T50, T999999, T120 \o <<" ">> \o T23450}}

ExcTexts == {"", "cv2.error"}

(***************************************************************************)
(* extract_weight_from_image                                               *)
(***************************************************************************)
NoneStr == "None"

MsgNotFound == "photo file not found"

MsgCannotOpen == "could not open the photo"

MsgGuidance == "could not determine the weight: send a new photo or enter the weight"

\* MsgError, were the status the bare exception text.
MsgErrorBare(e) == e

MsgError(e) == "photo processing error: " \o e

NoReturn == [weight |-> None, status |-> "(running)"]

InitialDetails ==
    [method |-> "none", error |-> NoneStr, text |-> <<>>, candidates |-> <<>>]

\* Boundary, were the exception raised again.
BoundaryReraise(e) ==
    [escaped |-> TRUE, ret |-> [weight |-> None, status |-> MsgError(e)], error |-> e]

\* Boundary, were the exception text left out of the details.
BoundaryNoError(e) ==
    [escaped |-> FALSE, ret |-> [weight |-> None, status |-> MsgError(e)], error |-> NoneStr]

\* The except clause around the whole body: what an exception becomes.
Boundary(e) ==
    [escaped |-> FALSE, ret |-> [weight |-> None, status |-> MsgError(e)], error |-> e]

Return(weight, status, d) ==
    /\ pc' = "done"
    /\ ret' = [weight |-> weight, status |-> status]
    /\ details' = d

\* Success, were the candidates not recorded in the details.
SuccessNoCandidates(method, weight, candidates, d) ==
    Return(weight, "", [d EXCEPT !.method = method])

\* A stage found a weight: method and candidates are recorded, status is "".
Success(method, weight, candidates, d) ==
    Return(weight, "", [d EXCEPT !.method = method, !.candidates = candidates])

\* Call, were the checks of the path and of the decoded image missing.
CallUnchecked(exists, decode, e) ==
    /\ pc = "idle"
    /\ UNCHANGED <<config, harness, dialog, calls, ret, escaped, exc>>
    /\ image' = IF ~exists THEN "missing"
                ELSE IF decode = "image" THEN "decoded" ELSE "undecodable"
    /\ pc' = "paddle"
    /\ details' = InitialDetails

\* Entry: the path is checked and the photo decoded.
Call(exists, decode, e) ==
    /\ pc = "idle"
    /\ UNCHANGED <<config, harness, dialog, calls>>
    /\ IF ~exists
       THEN /\ image' = "missing"
            /\ Return(None, MsgNotFound, InitialDetails)
            /\ UNCHANGED <<escaped, exc>>
       ELSE CASE decode = "none" ->
                   /\ image' = "undecodable"
                   /\ Return(None, MsgCannotOpen, InitialDetails)
                   /\ UNCHANGED <<escaped, exc>>
              [] decode = "raise" ->
                   /\ image' = "undecodable"
                   /\ pc' = "done"
                   /\ escaped' = Boundary(e).escaped
                   /\ ret' = IF Boundary(e).escaped THEN NoReturn ELSE Boundary(e).ret
                   /\ details' = [InitialDetails EXCEPT !.error = Boundary(e).error]
                   /\ exc' = e
              [] OTHER ->
                   /\ image' = "decoded"
                   /\ pc' = "paddle"
                   /\ details' = InitialDetails
                   /\ UNCHANGED <<ret, escaped, exc>>

\* StagePaddle, were a PaddleOCR exception left to reach the except clause of
\* extract_weight_from_image.
StagePaddleFatal(out) ==
    /\ pc = "paddle"
    /\ UNCHANGED <<config, harness, dialog, image, escaped, exc>>
    /\ IF ~PADDLE_AVAILABLE
       THEN pc' = "cv2_led" /\ UNCHANGED <<details, ret, calls>>
       ELSE LET r == _extract_with_paddle(out)
                d == [details EXCEPT !.text = r.text, !.candidates = r.candidates] IN
            /\ calls' = Append(calls, Invocation("paddle", out, r.weight))
            /\ IF out.kind = "raise"
               THEN Return(None, MsgError("ocr"), [details EXCEPT !.error = "ocr"])
               ELSE IF r.weight # None
               THEN Return(r.weight, "", [d EXCEPT !.method = "paddle"])
               ELSE pc' = "cv2_led" /\ details' = d /\ UNCHANGED ret

\* PaddleOCR on the contrast-enhanced whole image, if PaddleOCR is installed.
StagePaddle(out) ==
    /\ pc = "paddle"
    /\ UNCHANGED <<config, harness, dialog, image, escaped, exc>>
    /\ IF ~PADDLE_AVAILABLE
       THEN pc' = "cv2_led" /\ UNCHANGED <<details, ret, calls>>
       ELSE LET r == _extract_with_paddle(out)
                d == [details EXCEPT !.text = r.text, !.candidates = r.candidates] IN
            /\ calls' = Append(calls, Invocation("paddle", out, r.weight))
            /\ IF r.weight # None
               THEN Return(r.weight, "", [d EXCEPT !.method = "paddle"])
               ELSE pc' = "cv2_led" /\ details' = d /\ UNCHANGED ret

\* Cv2Led, were a display region not found a reason to read the whole image
\* again.
Cv2LedRetry(found) ==
    /\ pc = "cv2_led"
    /\ pc' = IF found THEN "cv2_led_paddle" ELSE "paddle"
    /\ UNCHANGED <<config, harness, dialog, image, details, ret, escaped, calls, exc>>

\* _extract_with_cv2 begins: _extract_led_by_color finds a display region or not.
Cv2Led(found) ==
    /\ pc = "cv2_led"
    /\ pc' = IF found THEN "cv2_led_paddle" ELSE "cv2_contours"
    /\ UNCHANGED <<config, harness, dialog, image, details, ret, escaped, calls, exc>>

\* Cv2LedPaddle, were its return on success missing.
Cv2LedPaddleNoReturn(out) ==
    /\ pc = "cv2_led_paddle"
    /\ UNCHANGED <<config, harness, dialog, image, escaped, exc, details, ret>>
    /\ pc' = "cv2_led_tesseract"
    /\ calls' = IF PADDLE_AVAILABLE
                THEN Append(calls, Invocation("led_paddle", out, LedPaddleResult(out).weight))
                ELSE calls

\* The colour-isolated region, read by PaddleOCR.
Cv2LedPaddle(out) ==
    /\ pc = "cv2_led_paddle"
    /\ UNCHANGED <<config, harness, dialog, image, escaped, exc>>
    /\ IF ~PADDLE_AVAILABLE
       THEN pc' = "cv2_led_tesseract" /\ UNCHANGED <<details, ret, calls>>
       ELSE LET r == LedPaddleResult(out) IN
            /\ calls' = Append(calls, Invocation("led_paddle", out, r.weight))
            /\ IF r.weight # None
               THEN Success("cv2", r.weight, r.candidates, details)
               ELSE pc' = "cv2_led_tesseract" /\ UNCHANGED <<details, ret>>

\* The colour-isolated region, read by Tesseract.
Cv2LedTesseract(out) ==
    /\ pc = "cv2_led_tesseract"
    /\ UNCHANGED <<config, harness, dialog, image, escaped, exc>>
    /\ IF ~TESSERACT_AVAILABLE
       THEN pc' = "cv2_contours" /\ UNCHANGED <<details, ret, calls>>
       ELSE LET r == LedTesseractResult(out) IN
            /\ calls' = Append(calls, Invocation("led_tesseract", out, r.weight))
            /\ IF r.weight # None
               THEN Success("cv2", r.weight, r.candidates, details)
               ELSE pc' = "cv2_contours" /\ UNCHANGED <<details, ret>>

\* The glyph-sized contours of the whole image, read by PaddleOCR.
Cv2Contours(out) ==
    /\ pc = "cv2_contours"
    /\ UNCHANGED <<config, harness, dialog, image, escaped, exc>>
    /\ IF ~PADDLE_AVAILABLE
       THEN pc' = "tesseract" /\ UNCHANGED <<details, ret, calls>>
       ELSE LET r == ContoursResult(out) IN
            /\ calls' = Append(calls, Invocation("contours", out, r.weight))
            /\ IF r.weight # None
               THEN Success("cv2", r.weight, r.candidates, details)
               ELSE pc' = "tesseract" /\ UNCHANGED <<details, ret>>

\* The Tesseract fallback, if pytesseract is installed.
StageTesseract(out) ==
    /\ pc = "tesseract"
    /\ UNCHANGED <<config, harness, dialog, image, escaped, exc>>
    /\ IF ~TESSERACT_AVAILABLE
       THEN pc' = "gpt" /\ UNCHANGED <<details, ret, calls>>
       ELSE LET r == _extract_with_tesseract(out)
                d == [details EXCEPT !.text = Strip(details.text \o <<" ">> \o r.text)] IN
            /\ calls' = Append(calls, Invocation("tesseract", out, r.weight))
            /\ IF r.weight # None
               THEN Success("tesseract", r.weight, r.candidates, d)
               ELSE pc' = "gpt" /\ details' = d /\ UNCHANGED ret

\* StageGpt, were a failure of the disambiguator reported as an error.
StageGptFatal(reply) ==
    /\ pc = "gpt"
    /\ UNCHANGED <<config, harness, dialog, image, escaped, exc>>
    /\ IF ~OPENAI_AVAILABLE
       THEN Return(None, MsgGuidance, details) /\ UNCHANGED calls
       ELSE LET r == _gpt_assist_from_text(details.text, reply) IN
            /\ calls' = Append(calls, Invocation("gpt", reply, r.weight))
            /\ IF r.weight # None
               THEN Success("gpt", r.weight, r.candidates, details)
               ELSE Return(None, MsgError("openai"), [details EXCEPT !.error = "openai"])

\* The disambiguator, if a credential is configured; then the guidance message.
StageGpt(reply) ==
    /\ pc = "gpt"
    /\ UNCHANGED <<config, harness, dialog, image, escaped, exc>>
    /\ IF ~OPENAI_AVAILABLE
       THEN Return(None, MsgGuidance, details) /\ UNCHANGED calls
       ELSE LET r == _gpt_assist_from_text(details.text, reply) IN
            /\ calls' = Append(calls, Invocation("gpt", reply, r.weight))
            /\ IF r.weight # None
               THEN Success("gpt", r.weight, r.candidates, details)
               ELSE Return(None, MsgGuidance, details)

\* The caller asks for the next photo: nothing of a call outlives it.
NewRequest ==
    /\ pc = "done"
    /\ ~escaped
    /\ pc' = "idle"
    /\ image' = "unread"
    /\ details' = InitialDetails
    /\ ret' = NoReturn
    /\ calls' = <<>>
    /\ exc' = NoneStr
    /\ UNCHANGED <<config, harness, dialog, escaped>>

\* The phones that write to the bot.
Phones == {"79001112233", "79004445566"}

\* A table without rows; a dict without keys.
NoRows == [k \in {} |-> k]

\* No message handled yet.
NoMessage ==
    [phone |-> "", via |-> "", media |-> FALSE, url |-> FALSE, yes |-> FALSE,
     reply |-> "", photo |-> "none", ocr |-> None, group |-> "none"]

\* The database as init_db leaves it on a first start, no message handled.
DialogIdle ==
    /\ drivers = NoRows
    /\ user_states = NoRows
    /\ weighings = <<>>
    /\ vehicles = NoRows
    /\ progress = [p \in Phones |-> 0]
    /\ last = NoMessage

Init ==
    /\ \E c \in ConfPairs : MIN_WEIGHT = c[1] /\ MAX_WEIGHT = c[2]
    /\ PADDLE_AVAILABLE \in BOOLEAN
    /\ TESSERACT_AVAILABLE \in BOOLEAN
    /\ OPENAI_AVAILABLE \in BOOLEAN
    /\ pc = "idle"
    /\ image = "unread"
    /\ details = InitialDetails
    /\ ret = NoReturn
    /\ escaped = FALSE
    /\ calls = <<>>
    /\ exc = NoneStr
    /\ ptext = <<>>
    /\ pout = Raise
    /\ race = NoRace
    /\ presult = NoParse
    /\ ppc = "off"
    /\ DialogIdle

Next ==
    \/ \E exists \in BOOLEAN, decode \in {"image", "none", "raise"}, e \in ExcTexts :
          Call(exists, decode, e)
    \/ \E out \in PaddleOutcomes : StagePaddle(out)
    \/ \E found \in BOOLEAN : Cv2Led(found)
    \/ \E out \in OcrOutcomes : Cv2LedPaddle(out)
    \/ \E out \in LineOutcomes : Cv2LedTesseract(out)
    \/ \E out \in OcrOutcomes : Cv2Contours(out)
    \/ \E out \in OcrOutcomes : StageTesseract(out)
    \/ \E reply \in GptReplies : StageGpt(reply)
    \/ NewRequest

Spec == Init /\ [][Next]_vars

(***************************************************************************)
(* FairSpec: the process of Spec, every backend call returning or raising, *)
(* so that a call under way takes its next step.                           *)
(***************************************************************************)
\* Detections in one backend answer under FairSpec.
MaxFairSegs == 1

FairPaddleOutcomes == {Raise} \cup {Ok(l) : l \in ListsUpTo(PaddleItems, MaxFairSegs)}

FairOcrOutcomes == {Raise} \cup {Ok(l) : l \in ListsUpTo(RegionTexts, MaxFairSegs)}

\* The steps of a call under way.
Stages ==
    \/ \E out \in FairPaddleOutcomes : StagePaddle(out)
    \/ \E found \in BOOLEAN : Cv2Led(found)
    \/ \E out \in FairOcrOutcomes : Cv2LedPaddle(out)
    \/ \E out \in LineOutcomes : Cv2LedTesseract(out)
    \/ \E out \in FairOcrOutcomes : Cv2Contours(out)
    \/ \E out \in FairOcrOutcomes : StageTesseract(out)
    \/ \E reply \in GptReplies : StageGpt(reply)

FairNext ==
    \/ \E exists \in BOOLEAN, decode \in {"image", "none", "raise"}, e \in ExcTexts :
          Call(exists, decode, e)
    \/ Stages
    \/ NewRequest

FairSpec == Init /\ [][FairNext]_vars /\ WF_vars(Stages)

(***************************************************************************)
(* ParseSpec: _parse_weight on every text made of at most MaxPieces pieces *)
(***************************************************************************)
Tkgs == <<" ", "k", "g", " ">>

Pieces == {TGrossWeight, T23450, T12000, T999999, T2345, Tkgs,
           <<" ">>, <<"O">>, <<".">>, <<"5">>}

RECURSIVE TextsUpTo(_)
TextsUpTo(n) ==
    IF n = 0 THEN {<<>>}
    ELSE LET shorter == TextsUpTo(n - 1) IN
         shorter \cup {t \o p : t \in shorter, p \in Pieces}

ParseInit ==
    /\ \E c \in ConfPairs : MIN_WEIGHT = c[1] /\ MAX_WEIGHT = c[2]
    /\ PADDLE_AVAILABLE = FALSE
    /\ TESSERACT_AVAILABLE = FALSE
    /\ OPENAI_AVAILABLE = FALSE
    /\ pc = "off"
    /\ image = "unread"
    /\ details = InitialDetails
    /\ ret = NoReturn
    /\ escaped = FALSE
    /\ calls = <<>>
    /\ exc = NoneStr
    /\ ptext \in TextsUpTo(MaxPieces)
    /\ pout = Raise
    /\ race = NoRace
    /\ presult = NoParse
    /\ ppc = "input"
    /\ DialogIdle

\* _parse_weight is applied to the text.
ParseWeight ==
    /\ ppc = "input"
    /\ presult' = _parse_weight(ptext)
    /\ ppc' = "parsed"
    /\ UNCHANGED <<config, pipeline, dialog, ptext, pout, race>>

ParseNext == ParseWeight

ParseSpec == ParseInit /\ [][ParseNext]_vars

(***************************************************************************)
(* SeparatorSpec: _parse_weight on numbers written with separators.        *)
(***************************************************************************)
T23 == <<"2", "3">>

T450 == <<"4", "5", "0">>

SeparatorPieces == {T23, T450, <<".">>, <<",">>, <<" ">>}

RECURSIVE SeparatorTextsUpTo(_)
SeparatorTextsUpTo(n) ==
    IF n = 0 THEN {<<>>}
    ELSE LET shorter == SeparatorTextsUpTo(n - 1) IN
         shorter \cup {t \o p : t \in shorter, p \in SeparatorPieces}

SeparatorInit ==
    /\ \E c \in ConfPairs : MIN_WEIGHT = c[1] /\ MAX_WEIGHT = c[2]
    /\ PADDLE_AVAILABLE = FALSE
    /\ TESSERACT_AVAILABLE = FALSE
    /\ OPENAI_AVAILABLE = FALSE
    /\ pc = "off"
    /\ image = "unread"
    /\ details = InitialDetails
    /\ ret = NoReturn
    /\ escaped = FALSE
    /\ calls = <<>>
    /\ exc = NoneStr
    /\ ptext \in SeparatorTextsUpTo(MaxPieces)
    /\ pout = Raise
    /\ race = NoRace
    /\ presult = NoParse
    /\ ppc = "input"
    /\ DialogIdle

SeparatorSpec == SeparatorInit /\ [][ParseNext]_vars

(***************************************************************************)
(* PaddleSpec: _extract_with_paddle on every answer PaddleOCR may give.    *)
(***************************************************************************)
PaddleInit ==
    /\ \E c \in ConfPairs : MIN_WEIGHT = c[1] /\ MAX_WEIGHT = c[2]
    /\ PADDLE_AVAILABLE = TRUE
    /\ TESSERACT_AVAILABLE = FALSE
    /\ OPENAI_AVAILABLE = FALSE
    /\ pc = "off"
    /\ image = "unread"
    /\ details = InitialDetails
    /\ ret = NoReturn
    /\ escaped = FALSE
    /\ calls = <<>>
    /\ exc = NoneStr
    /\ ptext = <<>>
    /\ pout \in PaddleOutcomes
    /\ race = NoRace
    /\ presult = NoParse
    /\ ppc = "answer"
    /\ DialogIdle

\* _extract_with_paddle is applied to the answer.
ExtractWithPaddle ==
    /\ ppc = "answer"
    /\ presult' = _extract_with_paddle(pout)
    /\ ppc' = "read"
    /\ UNCHANGED <<config, pipeline, dialog, ptext, pout, race>>

PaddleNext == ExtractWithPaddle

PaddleSpec == PaddleInit /\ [][PaddleNext]_vars

(***************************************************************************)
(* The tables of src/database.py.  A table is a function from its primary  *)
(* key to its rows, weighings a sequence in insertion order; a dict is a   *)
(* function from its keys.  A handler is an operator from the world (the   *)
(* tables and what the handling of this message has done so far) to the    *)
(* set of worlds it may leave: one for each answer of what it calls.       *)
(* The Cyrillic words of the source are written in Latin letters.          *)
(***************************************************************************)
\* Rows in the table weighings.
MaxRows == 1

DictPut(d, k, v) == [j \in DOMAIN d \cup {k} |-> IF j = k THEN v ELSE d[j]]

DictGet(d, k, default) == IF k \in DOMAIN d THEN d[k] ELSE default

DictDrop(d, k) == [j \in DOMAIN d \ {k} |-> d[j]]

\* str.lower(), on the letters the messages use.
LowerChar(c) == CASE c = "Y" -> "y" [] c = "N" -> "n" [] OTHER -> c

Lower(s) == [i \in 1..Len(s) |-> LowerChar(s[i])]

T0 == <<"0">>

T1 == <<"1">>

T2 == <<"2">>

T3 == <<"3">>

TMenu == <<"m", "e", "n", "y", "u">>

TRegistration == <<"r", "e", "g", "i", "s", "t", "r", "a", "t", "s", "i", "y", "a">>

\* The text the webhook gives to a media message.
TFoto == <<"f", "o", "t", "o">>

YesWords == {<<"d", "a">>, <<"y", "e", "s">>, <<"d">>, <<"y">>}

NoWords == {<<"n", "e", "t">>, <<"n", "o">>, <<"n">>}

\* get_user_state of a phone without a row: Python's None.
NoState == [state |-> NoneStr, temp_data |-> NoRows]

\* The world a message meets: the tables, and nothing done yet.
World ==
    [drivers |-> drivers, user_states |-> user_states, weighings |-> weighings,
     vehicles |-> vehicles,
     reply |-> "", photo |-> "none", ocr |-> None, group |-> "none"]

\* return text
Reply(w, text) == {[w EXCEPT !.reply = text]}

get_user_state(w, phone) == DictGet(w.user_states, phone, NoState)

\* INSERT OR REPLACE: a temp_data of None and an empty dict read the same.
set_user_state(w, phone, state, temp_data) ==
    [w EXCEPT !.user_states = DictPut(@, phone, [state |-> state, temp_data |-> temp_data])]

clear_user_state(w, phone) == [w EXCEPT !.user_states = DictDrop(@, phone)]

is_driver_registered(w, phone) ==
    phone \in DOMAIN w.drivers /\ w.drivers[phone].is_registered = 1

\* register_driver: the row is written and True returned, or the statement
\* fails and False is returned.
register_driver(w, phone, full_name, personal_phone, truck_number) ==
    {[ok |-> TRUE,
      w |-> [w EXCEPT !.drivers = DictPut(@, phone,
                [full_name |-> full_name, personal_phone |-> personal_phone,
                 truck_number |-> truck_number, is_registered |-> 1])]],
     [ok |-> FALSE, w |-> w]}

\* update_driver, were the row replaced (INSERT OR REPLACE) and is_registered
\* left to its default.
update_driverReplace(w, phone, truck_number) ==
    IF phone \in DOMAIN w.drivers
    THEN [w EXCEPT !.drivers[phone] = [@ EXCEPT !.truck_number = truck_number,
                                                !.is_registered = 0]]
    ELSE w

\* update_driver(phone, truck_number=...)
update_driver(w, phone, truck_number) ==
    IF phone \in DOMAIN w.drivers
    THEN [w EXCEPT !.drivers[phone].truck_number = truck_number]
    ELSE w

\* The rows of a truck that ORDER BY created_at DESC LIMIT 1 may return: SQL
\* leaves the order of rows with equal created_at open.
LatestRows(w, truck_number) ==
    LET mine == {i \in 1..Len(w.weighings) : w.weighings[i].truck_number = truck_number} IN
    {i \in mine : \A j \in mine : w.weighings[j].created_at <= w.weighings[i].created_at}

\* get_last_weight: the values it may return.
get_last_weight(w, truck_number) ==
    IF LatestRows(w, truck_number) = {} THEN {0}
    ELSE {w.weighings[i].current_weight : i \in LatestRows(w, truck_number)}

\* CURRENT_TIMESTAMP of a new row, in seconds since the first row: the second
\* of the row before it, or a later one.
Timestamps(w) ==
    IF w.weighings = <<>> THEN {0}
    ELSE {w.weighings[Len(w.weighings)].created_at,
          w.weighings[Len(w.weighings)].created_at + 1}

\* get_vehicle: the row of a truck in the table vehicles, or None.
NoVehicle == [last_weight |-> None]

get_vehicle(w, truck_number) == DictGet(w.vehicles, truck_number, NoVehicle)

\* get_or_create_vehicle: the row of a truck is inserted if there is none.
get_or_create_vehicle(w, truck_number) ==
    IF truck_number \in DOMAIN w.vehicles THEN w
    ELSE [w EXCEPT !.vehicles = DictPut(@, truck_number, [last_weight |-> 0])]

\* UPDATE vehicles SET last_weight = ... WHERE truck_number = ...: the rows
\* that are there.
UpdateVehicle(vs, truck_number, current_weight) ==
    [t \in DOMAIN vs |-> IF t = truck_number THEN [vs[t] EXCEPT !.last_weight = current_weight]
                                             ELSE vs[t]]

\* save_weighing: the row is inserted and the truck's row of vehicles
\* updated, or the statement fails and None is returned.
save_weighing(w, data) ==
    {[ok |-> TRUE,
      w |-> [w EXCEPT !.weighings = Append(@,
                [driver_phone |-> data.driver_phone, truck_number |-> data.truck_number,
                 driver_name |-> data.driver_name, client_name |-> data.client_name,
                 previous_weight |-> previous_weight,
                 current_weight |-> data.current_weight,
                 weight_difference |-> data.current_weight - previous_weight,
                 created_at |-> t]),
                      !.vehicles = UpdateVehicle(@, data.truck_number, data.current_weight)]] :
        previous_weight \in get_last_weight(w, data.truck_number), t \in Timestamps(w)}
    \cup {[ok |-> FALSE, w |-> w]}

(***************************************************************************)
(* The handlers of src/app.py.                                             *)
(***************************************************************************)
\* show_main_menu, were the state of the phone left in place.
show_main_menuKeepState(w, phone) ==
    IF ~is_driver_registered(w, phone)
    THEN Reply(w, "you are not registered: send 'da' to register")
    ELSE Reply(w, "choose an action: 1, 2, 3, 0")

show_main_menu(w, phone) ==
    LET w1 == clear_user_state(w, phone) IN
    IF ~is_driver_registered(w1, phone)
    THEN Reply(w1, "you are not registered: send 'da' to register")
    ELSE Reply(w1, "choose an action: 1, 2, 3, 0")

start_registration(w, phone) ==
    Reply(set_user_state(w, phone, "registration_name", NoRows),
          "registration: enter your full name")

\* handle_registration_name, were the name written to the driver's row at once.
handle_registration_nameAtOnce(w, phone, text) ==
    LET text_lower == Strip(Lower(text))
        full_name == Strip(text)
        w1 == IF phone \in DOMAIN w.drivers
              THEN [w EXCEPT !.drivers[phone].full_name = full_name]
              ELSE w IN
    IF text_lower \in {T0, TMenu} THEN show_main_menu(w, phone)
    ELSE IF Len(full_name) < 3
    THEN Reply(w, "enter the full name (3 characters at least)")
    ELSE Reply(set_user_state(w1, phone, "registration_phone",
                              DictPut(NoRows, "full_name", full_name)),
               "now enter your own phone number")

handle_registration_name(w, phone, text) ==
    LET text_lower == Strip(Lower(text))
        full_name == Strip(text) IN
    IF text_lower \in {T0, TMenu} THEN show_main_menu(w, phone)
    ELSE IF Len(full_name) < 3
    THEN Reply(w, "enter the full name (3 characters at least)")
    ELSE Reply(set_user_state(w, phone, "registration_phone",
                              DictPut(NoRows, "full_name", full_name)),
               "now enter your own phone number")

\* handle_registration_phone, were the length of the number not looked at.
handle_registration_phoneAnyLength(w, phone, text) ==
    LET text_lower == Strip(Lower(text))
        phone_clean == SelectSeq(text, IsDigit)
        temp_data == get_user_state(w, phone).temp_data IN
    IF text_lower \in {T0, TMenu} THEN show_main_menu(w, phone)
    ELSE Reply(set_user_state(w, phone, "registration_truck",
                              DictPut(temp_data, "personal_phone", phone_clean)),
               "enter the number of your truck")

handle_registration_phone(w, phone, text) ==
    LET text_lower == Strip(Lower(text))
        phone_clean == SelectSeq(text, IsDigit)
        temp_data == get_user_state(w, phone).temp_data IN
    IF text_lower \in {T0, TMenu} THEN show_main_menu(w, phone)
    ELSE IF Len(phone_clean) < 6
    THEN Reply(w, "wrong phone number: enter it again")
    ELSE Reply(set_user_state(w, phone, "registration_truck",
                              DictPut(temp_data, "personal_phone", phone_clean)),
               "enter the number of your truck")

handle_registration_truck(w, phone, text) ==
    LET text_lower == Strip(Lower(text))
        truck_number == Strip(Upper(text))
        temp_data == get_user_state(w, phone).temp_data
        full_name == DictGet(temp_data, "full_name", <<"?">>)
        personal_phone == DictGet(temp_data, "personal_phone", <<>>) IN
    IF text_lower \in {T0, TMenu} THEN show_main_menu(w, phone)
    ELSE IF Len(truck_number) < 3
    THEN Reply(w, "enter a right truck number")
    ELSE UNION {IF r.ok
                THEN Reply(clear_user_state(r.w, phone), "registration complete")
                ELSE Reply(r.w, "registration failed: try again") :
                r \in register_driver(w, phone, full_name, personal_phone, truck_number)}

\* handle_client_name, were the photo step skipped.
handle_client_nameNoPhoto(w, phone, text) ==
    LET temp_data == get_user_state(w, phone).temp_data
        client_name == Strip(text) IN
    IF Len(client_name) < 2 THEN Reply(w, "enter the client's name")
    ELSE Reply(set_user_state(w, phone, "awaiting_confirmation",
                              DictPut(temp_data, "client_name", client_name)),
               "send a photo of the scale display")

\* handle_client_name, were a name of any length taken.
handle_client_nameAnyLength(w, phone, text) ==
    LET temp_data == get_user_state(w, phone).temp_data
        client_name == Strip(text) IN
    Reply(set_user_state(w, phone, "awaiting_photo",
                         DictPut(temp_data, "client_name", client_name)),
          "send a photo of the scale display")

handle_client_name(w, phone, text) ==
    LET temp_data == get_user_state(w, phone).temp_data
        client_name == Strip(text) IN
    IF Len(client_name) < 2 THEN Reply(w, "enter the client's name")
    ELSE Reply(set_user_state(w, phone, "awaiting_photo",
                              DictPut(temp_data, "client_name", client_name)),
               "send a photo of the scale display")

\* The limits of a weight typed by the driver.
MANUAL_MIN == 100

MANUAL_MAX == 150000

IsDigitOrDot(c) == c \in Digit \cup {"."}

\* float(weight_str) of digits and dots: ValueError, or the whole part of the
\* number with whether a fraction above zero follows it.
ManualFloat(s) ==
    LET dots == Len(s) - Len(SelectSeq(s, IsDigit)) IN
    IF SelectSeq(s, IsDigit) = <<>> \/ dots > 1
    THEN [error |-> TRUE, whole |-> 0, fraction |-> FALSE]
    ELSE LET at == IF dots = 0 THEN Len(s) + 1
                   ELSE CHOOSE i \in 1..Len(s) : s[i] = "." IN
         [error |-> FALSE,
          whole |-> Float(SubSeq(s, 1, at - 1)),
          fraction |-> \E i \in (at + 1)..Len(s) : s[i] # "0"]

\* The temp_data of a report once a weight is known.
WithWeight(temp_data, current_weight, previous_weight) ==
    DictPut(DictPut(DictPut(DictPut(temp_data,
        "current_weight", current_weight),
        "photo_received", TRUE),
        "previous_weight", previous_weight),
        "weight_difference", current_weight - previous_weight)

\* handle_manual_weight_input, were its limits those of the configuration.
handle_manual_weight_inputConfigLimits(w, phone, text) ==
    LET weight_str == SelectSeq(Strip(text), IsDigitOrDot)
        weight == ManualFloat(weight_str)
        temp_data == get_user_state(w, phone).temp_data
        truck_number == DictGet(temp_data, "truck_number", <<>>) IN
    IF weight.error THEN Reply(w, "not a number: write one, or send a new photo")
    ELSE IF weight.whole < MIN_WEIGHT THEN Reply(w, "the weight is too small")
    ELSE IF weight.whole > MAX_WEIGHT \/ (weight.whole = MAX_WEIGHT /\ weight.fraction)
    THEN Reply(w, "the weight is too large")
    ELSE UNION {Reply(set_user_state(w, phone, "awaiting_confirmation",
                         DictPut(WithWeight(temp_data, weight.whole, previous_weight),
                                 "weight_manual_input", TRUE)),
                      "confirm the report (weight typed)") :
                previous_weight \in get_last_weight(w, truck_number)}

handle_manual_weight_input(w, phone, text) ==
    LET weight_str == SelectSeq(Strip(text), IsDigitOrDot)
        weight == ManualFloat(weight_str)
        temp_data == get_user_state(w, phone).temp_data
        truck_number == DictGet(temp_data, "truck_number", <<>>) IN
    IF weight.error THEN Reply(w, "not a number: write one, or send a new photo")
    ELSE IF weight.whole < MANUAL_MIN THEN Reply(w, "the weight is too small")
    ELSE IF weight.whole > MANUAL_MAX \/ (weight.whole = MANUAL_MAX /\ weight.fraction)
    THEN Reply(w, "the weight is too large")
    ELSE UNION {Reply(set_user_state(w, phone, "awaiting_confirmation",
                         DictPut(WithWeight(temp_data, weight.whole, previous_weight),
                                 "weight_manual_input", TRUE)),
                      "confirm the report (weight typed)") :
                previous_weight \in get_last_weight(w, truck_number)}

\* message_data of a call without the argument (None), and an empty dict.
NoneData == [key |-> NoneStr, url |-> FALSE]

EmptyData == [key |-> "", url |-> FALSE]

\* The keys of a message under which handle_photo_received looks for downloadUrl.
UrlKeys == {"fileMessageData", "imageMessageData", "photoMessageData"}

HasUrl(message_data) == message_data.key \in UrlKeys /\ message_data.url

\* What requests.get and the writing of the file may give.
Downloads == {"raise", "404", "200"}

\* What extract_weight_from_image may return to the dialog.
ExtractionResults ==
    {[weight |-> None, status |-> MsgGuidance, details |-> InitialDetails]}
    \cup {[weight |-> v, status |-> "",
           details |-> [InitialDetails EXCEPT !.method = "paddle", !.candidates = <<v>>]] :
          v \in {23450}}

\* handle_photo_received once the photo is saved: extract_weight_from_image
\* is called and its weight decides the next state.
PhotoSaved(w, phone, temp_data, r) ==
    LET truck_number == DictGet(temp_data, "truck_number", <<>>)
        w1 == [w EXCEPT !.photo = "extracted", !.ocr = r.weight] IN
    IF r.weight # None
    THEN UNION {Reply(set_user_state(w1, phone, "awaiting_confirmation",
                         DictPut(DictPut(WithWeight(temp_data, r.weight, previous_weight),
                                         "ocr_details", r.details),
                                 "photo_path", "uploads/photos/" \o phone \o ".jpg")),
                      "confirm the report") :
                previous_weight \in get_last_weight(w1, truck_number)}
    ELSE Reply(set_user_state(w1, phone, "awaiting_manual_weight", temp_data),
               r.status \o ": send a new photo or type the weight")

handle_photo_received(w, phone, has_media, message_data) ==
    LET temp_data0 == get_user_state(w, phone).temp_data
        temp_data == IF message_data \notin {NoneData, EmptyData}
                     THEN DictPut(temp_data0, "media_data", message_data)
                     ELSE temp_data0 IN
    IF ~has_media THEN Reply(w, "please send a photo")
    ELSE IF message_data = NoneData
    THEN Reply([w EXCEPT !.photo = "error"],
               "photo handling error: argument of type 'NoneType' is not iterable")
    ELSE IF ~HasUrl(message_data) THEN Reply(w, "could not get the photo: try again")
    ELSE UNION {CASE d = "raise" ->
                       Reply([w EXCEPT !.photo = "failed"], "photo handling error: requests")
                  [] d = "404" ->
                       Reply([w EXCEPT !.photo = "failed"], "download error: try again")
                  [] OTHER ->
                       UNION {PhotoSaved(w, phone, temp_data, r) : r \in ExtractionResults} :
                d \in Downloads}

\* Config.GROUP_ID: not set, or the chat of the group.
GroupIds == {"", "120363000000000000@g.us"}

\* send_report_to_group: what goes to the group.  A failure of the request
\* is caught inside GreenApiClient.
send_report_to_group(w, phone, temp_data) ==
    LET media_data == DictGet(temp_data, "media_data", EmptyData)
        photo_received == DictGet(temp_data, "photo_received", FALSE) IN
    {[w EXCEPT !.group =
         IF GROUP_ID = "" THEN "not sent"
         ELSE IF photo_received /\ media_data # EmptyData
                 /\ media_data.key = "fileMessageData" /\ media_data.url
         THEN "file with caption"
         ELSE "text"] : GROUP_ID \in GroupIds}

\* The weighing_data handle_confirmation makes of the report.
WeighingData(w, phone) ==
    LET temp_data == get_user_state(w, phone).temp_data IN
    [driver_phone |-> phone,
     truck_number |-> DictGet(temp_data, "truck_number", <<>>),
     driver_name |-> IF phone \in DOMAIN w.drivers
                     THEN w.drivers[phone].full_name ELSE <<>>,
     client_name |-> DictGet(temp_data, "client_name", <<>>),
     current_weight |-> DictGet(temp_data, "current_weight", 0)]

\* handle_confirmation, were the report sent to the group before the result
\* of save_weighing is looked at.
handle_confirmationSendFirst(w, phone, text) ==
    LET temp_data == get_user_state(w, phone).temp_data IN
    IF Lower(text) \in NoWords THEN Reply(clear_user_state(w, phone), "report cancelled")
    ELSE IF Lower(text) \notin YesWords
    THEN Reply(w, "write 'da' to save or 'net' to cancel")
    ELSE UNION {UNION {IF r.ok
                       THEN Reply(clear_user_state(g, phone), "report saved and sent")
                       ELSE Reply(g, "saving failed: try again") :
                       g \in send_report_to_group(r.w, phone, temp_data)} :
                r \in save_weighing(w, WeighingData(w, phone))}

\* handle_confirmation, were every answer but a no taken for a yes.
handle_confirmationAnyYes(w, phone, text) ==
    LET temp_data == get_user_state(w, phone).temp_data IN
    IF Lower(text) \in NoWords THEN Reply(clear_user_state(w, phone), "report cancelled")
    ELSE UNION {IF r.ok
                THEN UNION {Reply(clear_user_state(g, phone), "report saved and sent") :
                            g \in send_report_to_group(r.w, phone, temp_data)}
                ELSE Reply(r.w, "saving failed: try again") :
                r \in save_weighing(w, WeighingData(w, phone))}

handle_confirmation(w, phone, text) ==
    LET temp_data == get_user_state(w, phone).temp_data IN
    IF Lower(text) \in NoWords THEN Reply(clear_user_state(w, phone), "report cancelled")
    ELSE IF Lower(text) \notin YesWords
    THEN Reply(w, "write 'da' to save or 'net' to cancel")
    ELSE UNION {IF r.ok
                THEN UNION {Reply(clear_user_state(g, phone), "report saved and sent") :
                            g \in send_report_to_group(r.w, phone, temp_data)}
                ELSE Reply(r.w, "saving failed: try again") :
                r \in save_weighing(w, WeighingData(w, phone))}

RegistrationStates == {"registration_name", "registration_phone", "registration_truck"}

\* The registration step the state names.
RegistrationStep(w, phone, state, text) ==
    CASE state = "registration_name" -> handle_registration_name(w, phone, text)
      [] state = "registration_phone" -> handle_registration_phone(w, phone, text)
      [] state = "registration_truck" -> handle_registration_truck(w, phone, text)

\* process_message for a registered driver without a command: by the state.
ReportStep(w, phone, state, text_original, has_media) ==
    CASE state.state = "changing_truck" ->
           IF Len(Strip(Upper(text_original))) < 3
           THEN Reply(w, "enter a right truck number")
           ELSE Reply(clear_user_state(
                          update_driver(w, phone, Strip(Upper(text_original))), phone),
                      "truck number changed")
      [] state.state = "awaiting_client" -> handle_client_name(w, phone, text_original)
      [] state.state = "awaiting_photo" ->
           handle_photo_received(w, phone, has_media,
               IF has_media THEN DictGet(state.temp_data, "media_data", EmptyData)
               ELSE NoneData)
      [] state.state = "awaiting_manual_weight" ->
           IF has_media
           THEN handle_photo_received(w, phone, TRUE,
                    DictGet(state.temp_data, "media_data", EmptyData))
           ELSE handle_manual_weight_input(w, phone, text_original)
      [] state.state = "awaiting_confirmation" -> handle_confirmation(w, phone, text_original)
      [] state.state = "awaiting_stats_truck" ->
           Reply(clear_user_state(w, phone), "statistics of the truck")
      [] OTHER -> Reply(w, "unknown command: send 0 for the menu")

process_message(w, phone, text, has_media) ==
    LET state == get_user_state(w, phone)
        text_original == Strip(text)
        text_lower == Lower(text_original) IN
    IF has_media /\ text # <<>>
    THEN IF state.state = "awaiting_photo"
         THEN handle_photo_received(w, phone, TRUE, NoneData)
         ELSE Reply(w, "photos are not needed now: send text")
    ELSE IF text_lower \in {T0, TMenu} THEN show_main_menu(w, phone)
    ELSE IF text_lower \in {T3, TRegistration}
    THEN start_registration(clear_user_state(w, phone), phone)
    ELSE IF ~is_driver_registered(w, phone)
    THEN IF state = NoState THEN start_registration(clear_user_state(w, phone), phone)
         ELSE IF state.state \in RegistrationStates
         THEN RegistrationStep(w, phone, state.state, text_original)
         ELSE start_registration(w, phone)
    ELSE IF state.state \in RegistrationStates
    THEN RegistrationStep(w, phone, state.state, text_original)
    ELSE IF text_lower = T2
    THEN Reply(set_user_state(w, phone, "changing_truck", NoRows), "enter the new truck number")
    ELSE IF text_lower = T1
    THEN IF w.drivers[phone].truck_number # <<>>
         THEN Reply(set_user_state(w, phone, "awaiting_client",
                        [truck_number |-> w.drivers[phone].truck_number,
                         driver_name |-> w.drivers[phone].full_name,
                         driver_phone |-> w.drivers[phone].personal_phone]),
                    "enter the client's name:")
         ELSE Reply(w, "no truck number: use item 2 of the menu")
    ELSE ReportStep(w, phone, state, text_original, has_media)

\* webhook, were the media noted in the state of a driver in any step.
webhookNoteAlways(w, phone, msg) ==
    LET has_media == msg.kind = "media"
        text == IF has_media THEN TFoto ELSE msg.text
        state == get_user_state(w, phone)
        w1 == IF has_media /\ state # NoState
              THEN set_user_state(w, phone, state.state,
                                  DictPut(state.temp_data, "media_data", msg.data))
              ELSE w IN
    IF msg.kind = "unknown" \/ text = <<>> THEN {w}
    ELSE process_message(w1, phone, text, has_media)

\* webhook: the message is read, a media message is noted in the state of a
\* driver awaiting a photo, and process_message answers.
webhook(w, phone, msg) ==
    LET has_media == msg.kind = "media"
        text == IF has_media THEN TFoto ELSE msg.text
        state == get_user_state(w, phone)
        w1 == IF has_media /\ state.state = "awaiting_photo"
              THEN set_user_state(w, phone, "awaiting_photo",
                                  DictPut(state.temp_data, "media_data", msg.data))
              ELSE w IN
    IF msg.kind = "unknown" \/ text = <<>> THEN {w}
    ELSE process_message(w1, phone, text, has_media)

(***************************************************************************)
(* DialogSpec: messages of two phones, one handled per step.               *)
(***************************************************************************)
TY == <<"Y">>

Tn == <<"n">>

T100000 == <<"1", "0", "0", "0", "0", "0">>

\* The texts a driver sends.
TextPool == {T0, T1, T2, T3, TY, Tn, T100000}

\* The texts of the calls of process_message that do not come from the webhook:
\* a media message without the webhook's text.
CallTexts == {<<>>}

\* The messageData of the media messages a driver sends.
MediaPool ==
    {[key |-> "imageMessageData", url |-> TRUE],
     [key |-> "fileMessageData", url |-> TRUE]}

\* What Green API posts to /webhook.
WebhookMessages ==
    {[kind |-> "text", text |-> t, data |-> NoneData] : t \in TextPool \cup {<<>>}}
    \cup {[kind |-> "media", text |-> <<>>, data |-> m] : m \in MediaPool}
    \cup {[kind |-> "unknown", text |-> <<>>, data |-> NoneData]}

\* The states of a report being filled in.
ReportStates ==
    {"awaiting_client", "awaiting_photo", "awaiting_manual_weight", "awaiting_confirmation"}

\* How far a reply takes the report script of its phone: 1 started, 2 client
\* named, 3 weight known; 0 once the phone is left without a report.
Advance(k, reply, state) ==
    CASE reply = "enter the client's name:" -> 1
      [] reply = "send a photo of the scale display" -> IF k = 1 THEN 2 ELSE k
      [] reply \in {"confirm the report", "confirm the report (weight typed)"} ->
           IF k \in {2, 3} THEN 3 ELSE k
      [] OTHER -> IF state \in ReportStates THEN k ELSE 0

\* One of the worlds the handling may leave becomes the state, the table
\* weighings holding maxRows rows at most.
HandledUpTo(maxRows, results, phone, via, text, media, url) ==
    \E w \in results :
        /\ Len(w.weighings) <= maxRows
        /\ drivers' = w.drivers
        /\ user_states' = w.user_states
        /\ weighings' = w.weighings
        /\ vehicles' = w.vehicles
        /\ progress' = [progress EXCEPT
                           ![phone] = Advance(@, w.reply, get_user_state(w, phone).state)]
        /\ last' = [phone |-> phone, via |-> via, media |-> media, url |-> url,
                    yes |-> Lower(Strip(text)) \in YesWords,
                    reply |-> w.reply, photo |-> w.photo, ocr |-> w.ocr,
                    group |-> w.group]
        /\ UNCHANGED <<config, pipeline, harness>>

Handled(results, phone, via, text, media, url) ==
    HandledUpTo(MaxRows, results, phone, via, text, media, url)

\* Green API delivers a message of a phone to /webhook.
Webhook(phone, msg) ==
    /\ ppc = "dialog"
    /\ Handled(webhook(World, phone, msg), phone, "webhook", msg.text,
               msg.kind = "media", HasUrl(msg.data))

\* process_message is called by another caller than the webhook.
ProcessMessage(phone, text, has_media) ==
    /\ ppc = "dialog"
    /\ Handled(process_message(World, phone, text, has_media), phone, "call", text,
               has_media,
               has_media /\ HasUrl(DictGet(get_user_state(World, phone).temp_data,
                                           "media_data", EmptyData)))

DialogInit ==
    /\ MIN_WEIGHT = 1
    /\ MAX_WEIGHT = 150000
    /\ PADDLE_AVAILABLE = FALSE
    /\ TESSERACT_AVAILABLE = FALSE
    /\ OPENAI_AVAILABLE = FALSE
    /\ pc = "off"
    /\ image = "unread"
    /\ details = InitialDetails
    /\ ret = NoReturn
    /\ escaped = FALSE
    /\ calls = <<>>
    /\ exc = NoneStr
    /\ ptext = <<>>
    /\ pout = Raise
    /\ race = NoRace
    /\ presult = NoParse
    /\ ppc = "dialog"
    /\ DialogIdle

DialogNext ==
    \/ \E phone \in Phones, msg \in WebhookMessages : Webhook(phone, msg)
    \/ \E phone \in Phones, text \in CallTexts : ProcessMessage(phone, text, TRUE)

DialogSpec == DialogInit /\ [][DialogNext]_vars

(***************************************************************************)
(* SoloSpec: the dialog of one phone alone, the other never writing.       *)
(***************************************************************************)
\* The phone that writes.
Driver == "79001112233"

SoloNext ==
    \/ \E msg \in WebhookMessages : Webhook(Driver, msg)
    \/ \E text \in CallTexts : ProcessMessage(Driver, text, TRUE)

SoloSpec == DialogInit /\ [][SoloNext]_vars

(***************************************************************************)
(* WeighingSpec: save_weighing called again and again on the table         *)
(* weighings, for two trucks.                                              *)
(***************************************************************************)
MaxChain == 3

\* The truck numbers of the rows.
Trucks == {T100000, T999999}

\* The weights of the rows.
RowWeights == {23450, 100000}

\* db.save_weighing(data) returns: the row is there, or nothing has changed.
SaveWeighing(truck_number, current_weight) ==
    /\ Len(weighings) < MaxChain
    /\ \E r \in save_weighing(World, [driver_phone |-> Driver, truck_number |-> truck_number,
                                      driver_name |-> T100000, client_name |-> T12000,
                                      current_weight |-> current_weight]) :
           weighings' = r.w.weighings /\ vehicles' = r.w.vehicles
    /\ UNCHANGED <<config, pipeline, harness, drivers, user_states, progress, last>>

WeighingNext == \E truck_number \in Trucks, current_weight \in RowWeights :
                    SaveWeighing(truck_number, current_weight)

WeighingSpec == DialogInit /\ [][WeighingNext]_vars

(***************************************************************************)
(* PairSpec: two drivers of one truck reporting side by side.  They send    *)
(* what a report needs and nothing else, and two rows may be stored.       *)
(***************************************************************************)
MaxPairRows == 2

\* What the two drivers send: the texts of a registration and of a report,
\* and a photo.
PairMessages ==
    {[kind |-> "text", text |-> t, data |-> NoneData] : t \in {T1, TY, T100000}}
    \cup {[kind |-> "media", text |-> <<>>, data |-> [key |-> "imageMessageData", url |-> TRUE]]}

WebhookPair(phone, msg) ==
    /\ ppc = "dialog"
    /\ HandledUpTo(MaxPairRows, webhook(World, phone, msg), phone, "webhook", msg.text,
                   msg.kind = "media", HasUrl(msg.data))

ProcessMessagePair(phone, text, has_media) ==
    /\ ppc = "dialog"
    /\ HandledUpTo(MaxPairRows, process_message(World, phone, text, has_media), phone,
                   "call", text, has_media,
                   has_media /\ HasUrl(DictGet(get_user_state(World, phone).temp_data,
                                               "media_data", EmptyData)))

PairNext ==
    \/ \E phone \in Phones, msg \in PairMessages : WebhookPair(phone, msg)
    \/ \E phone \in Phones, text \in CallTexts : ProcessMessagePair(phone, text, TRUE)

PairSpec == DialogInit /\ [][PairNext]_vars

(***************************************************************************)
(* RaceSpec: one driver's dialog, message by message, until two deliveries *)
(* of the phone reach /webhook together.  The server answers each request  *)
(* in a thread of its own (app.run of Flask); every db call opens its      *)
(* connection, commits and closes, so the threads interleave between db    *)
(* calls.  A step of a thread is one db call that matters to the tables;   *)
(* reads that no write follows are left out.                               *)
(***************************************************************************)
\* The messages delivered together: a yes, the command 0, a photo.
RaceKinds == {"yes", "zero", "media"}

RaceMessage(kind) ==
    CASE kind = "yes" -> [kind |-> "text", text |-> TY, data |-> NoneData]
      [] kind = "zero" -> [kind |-> "text", text |-> T0, data |-> NoneData]
      [] kind = "media" -> [kind |-> "media", text |-> <<>>,
                            data |-> [key |-> "imageMessageData", url |-> TRUE]]

\* The first db call of the handling of a message that matters.
FirstPc(kind) ==
    CASE kind = "yes" -> "process_message: get_user_state"
      [] kind = "zero" -> "show_main_menu: clear_user_state"
      [] kind = "media" -> "webhook: get_user_state"

\* The tables as a thread meets them.
Tables == [drivers |-> drivers, user_states |-> user_states, weighings |-> weighings,
           vehicles |-> vehicles]

\* The states in which the driver is when the two deliveries arrive.
RaceStates == {"awaiting_photo", "awaiting_confirmation"}

\* Two messages of the driver arrive before either is handled.
Deliver(first, second) ==
    /\ ppc = "dialog"
    /\ race = NoRace
    /\ is_driver_registered(World, Driver)
    /\ get_user_state(World, Driver).state \in RaceStates
    /\ race' = [kind |-> "race",
                th |-> <<[msg |-> first, pc |-> FirstPc(first), seen |-> NoState],
                         [msg |-> second, pc |-> FirstPc(second), seen |-> NoState]>>,
                start |-> Tables,
                sent |-> 0]
    /\ UNCHANGED <<config, pipeline, dialog, ptext, pout, presult, ppc>>

\* A message handled with no other in flight.
RaceWebhook(msg) == race = NoRace /\ Webhook(Driver, msg)

RaceProcessMessage(text) == race = NoRace /\ ProcessMessage(Driver, text, TRUE)

\* The world with the tables as they are and the row of user_states a thread
\* has read in place of the driver's.
AsSeen(seen) == [World EXCEPT !.user_states = DictPut(@, Driver, seen)]

\* The thread moves on, the tables becoming those of w.
Moves(t, at, seen, w, sent) ==
    /\ race' = [race EXCEPT !.th[t].pc = at, !.th[t].seen = seen, !.sent = sent]
    /\ drivers' = w.drivers
    /\ user_states' = w.user_states
    /\ weighings' = w.weighings
    /\ vehicles' = w.vehicles
    /\ UNCHANGED <<config, pipeline, ptext, pout, presult, ppc, progress, last>>

\* webhook, a media message: the state is read, and for awaiting_photo written
\* back with media_data added; process_message and handle_photo_received
\* (called without message_data) then only read.
MediaStep(t) ==
    LET me == race.th[t]
        state == get_user_state(World, Driver) IN
    \/ /\ me.pc = "webhook: get_user_state"
       /\ Moves(t, IF state.state = "awaiting_photo" THEN "webhook: set_user_state" ELSE "done",
                state, World, race.sent)
    \/ /\ me.pc = "webhook: set_user_state"
       /\ Moves(t, "done", me.seen,
                set_user_state(World, Driver, "awaiting_photo",
                               DictPut(me.seen.temp_data, "media_data",
                                       RaceMessage("media").data)),
                race.sent)

\* process_message, text 0: show_main_menu clears the state.
ZeroStep(t) ==
    /\ race.th[t].pc = "show_main_menu: clear_user_state"
    /\ Moves(t, "done", NoState, clear_user_state(World, Driver), race.sent)

\* process_message, a yes: the state read decides the handler; only
\* handle_confirmation writes.  It reads the state again (a missing row
\* raises TypeError, answered with status 500), saves the weighing, sends the
\* report and clears the state.
YesStep(t) ==
    LET me == race.th[t]
        state == get_user_state(World, Driver) IN
    \/ /\ me.pc = "process_message: get_user_state"
       /\ Moves(t, IF state.state = "awaiting_confirmation"
                   THEN "handle_confirmation: get_user_state" ELSE "done",
                state, World, race.sent)
    \/ /\ me.pc = "handle_confirmation: get_user_state"
       /\ Moves(t, IF state = NoState THEN "done" ELSE "handle_confirmation: save_weighing",
                state, World, race.sent)
    \/ /\ me.pc = "handle_confirmation: save_weighing"
       /\ \E r \in save_weighing(World, WeighingData(AsSeen(me.seen), Driver)) :
             Moves(t, IF r.ok THEN "handle_confirmation: send_report_to_group" ELSE "done",
                   me.seen, r.w, race.sent)
    \/ /\ me.pc = "handle_confirmation: send_report_to_group"
       /\ \E g \in send_report_to_group(World, Driver, me.seen.temp_data) :
             Moves(t, "handle_confirmation: clear_user_state", me.seen, World,
                   IF g.group = "not sent" THEN race.sent ELSE race.sent + 1)
    \/ /\ me.pc = "handle_confirmation: clear_user_state"
       /\ Moves(t, "done", me.seen, clear_user_state(World, Driver), race.sent)

\* One db call of one of the two threads.
ThreadStep(t) ==
    /\ race # NoRace
    /\ \/ race.th[t].msg = "media" /\ MediaStep(t)
       \/ race.th[t].msg = "zero" /\ ZeroStep(t)
       \/ race.th[t].msg = "yes" /\ YesStep(t)

RaceNext ==
    \/ \E msg \in WebhookMessages : RaceWebhook(msg)
    \/ \E text \in CallTexts : RaceProcessMessage(text)
    \/ \E first \in RaceKinds, second \in RaceKinds : Deliver(first, second)
    \/ \E t \in {1, 2} : ThreadStep(t)

RaceSpec == DialogInit /\ [][RaceNext]_vars

(***************************************************************************)
(* What the claims speak of, read off the text itself.                     *)
(***************************************************************************)
Returned == pc = "done" /\ ~escaped

Last(s) == s[Len(s)]

\* The position of a stage in the pipeline's order.
StageRank(stage) ==
    CASE stage = "paddle" -> 1 [] stage = "led_paddle" -> 2 [] stage = "led_tesseract" -> 3
      [] stage = "contours" -> 4 [] stage = "tesseract" -> 5 [] stage = "gpt" -> 6

StagesInvoked == {calls[i].stage : i \in 1..Len(calls)}

\* The stages this installation always has to try on a decoded image.
StagesAvailable ==
    (IF PADDLE_AVAILABLE THEN {"paddle", "contours"} ELSE {})
        \cup (IF TESSERACT_AVAILABLE THEN {"tesseract"} ELSE {})
        \cup (IF OPENAI_AVAILABLE THEN {"gpt"} ELSE {})

\* Where the maximal digit runs of a text start, where one ends, its value.
DigitRunStarts(text) ==
    {i \in 1..Len(text) : text[i] \in Digit /\ (i = 1 \/ text[i - 1] \notin Digit)}

RunEnd(text, i) ==
    CHOOSE j \in i..Len(text) :
        /\ \A k \in i..j : text[k] \in Digit
        /\ j = Len(text) \/ text[j + 1] \notin Digit

RunValue(text, i) == Float(SubSeq(text, i, RunEnd(text, i)))

\* The run ending at j is followed by "kg", whitespace allowed in between.
FollowedByKg(text, j) ==
    \E k \in (j + 1)..(Len(text) - 1) :
        /\ \A m \in (j + 1)..(k - 1) : text[m] \in Whitespace
        /\ text[k] = "k" /\ text[k + 1] = "g"

\* The run starting at i follows the keyword and its delimiter.
LabelBefore(text, i) ==
    /\ i > Len(TGrossWeight)
    /\ SubSeq(text, i - Len(TGrossWeight), i - 1) = TGrossWeight

\* The starts of the labeled values: 3 to 5 digits after the keyword.
LabeledStarts(text) ==
    {i \in DigitRunStarts(text) :
        LabelBefore(text, i) /\ RunEnd(text, i) - i + 1 \in 3..5}

BareStarts(text) ==
    {i \in DigitRunStarts(text) :
        ~LabelBefore(text, i) /\ ~FollowedByKg(text, RunEnd(text, i))}

WithinConfigured(v) == MIN_WEIGHT <= v /\ v <= MAX_WEIGHT

SetMax(S) == CHOOSE m \in S : \A x \in S : x <= m

\* Every number of the text is followed by "kg", there are several, none labeled.
UnitMarkedOnly(text) ==
    /\ Cardinality(DigitRunStarts(text)) >= 2
    /\ \A i \in DigitRunStarts(text) :
          FollowedByKg(text, RunEnd(text, i)) /\ ~LabelBefore(text, i)

\* The substitution table {O,o}->0, {l,I}->1, {S,s}->5.
SubstituteChar(c) ==
    CASE c \in {"O", "o"} -> "0" [] c \in {"l", "I"} -> "1" [] c \in {"S", "s"} -> "5"
      [] OTHER -> c

Substitute(text) == [i \in 1..Len(text) |-> SubstituteChar(text[i])]

OcrCalls == {i \in 1..Len(calls) : calls[i].stage # "gpt"}

(***************************************************************************)
(* The claims.                                                             *)
(***************************************************************************)

\* C1: every weight extract_weight_from_image returns lies within
\* [MIN_WEIGHT, MAX_WEIGHT], whatever pair is configured and whatever the
\* stages answered.
C1_RangeInvariant ==
    (Returned /\ ret.weight # None) => (MIN_WEIGHT <= ret.weight /\ ret.weight <= MAX_WEIGHT)

\* C2: no exception leaves extract_weight_from_image: whatever failed, a
\* finished call has returned (weight or None, status message, details).
C2_NoEscape ==
    /\ ~escaped
    /\ pc = "done" =>
          /\ ret # NoReturn
          /\ ret.weight = None \/ ret.weight >= 0
          /\ DOMAIN details = {"method", "error", "text", "candidates"}

C2_Witness ==
    /\ pc = "done"
    /\ image = "undecodable"
    /\ details.error = "cv2.error"
    /\ ret.weight = None

\* C3: the stages are invoked in the fixed order, each at most once; a stage
\* is invoked only if every earlier one yielded nothing; the first stage that
\* yields a weight ends the call, which returns exactly that weight.
C3_ShortCircuit ==
    /\ \A i, j \in 1..Len(calls) :
          i < j => StageRank(calls[i].stage) < StageRank(calls[j].stage)
    /\ \A i \in 1..(Len(calls) - 1) : calls[i].weight = None
    /\ (calls # <<>> /\ Last(calls).weight # None) =>
          (Returned /\ ret.weight = Last(calls).weight)
    /\ (Returned /\ ret.weight # None) =>
          (calls # <<>> /\ ret.weight = Last(calls).weight)

C3_Witness ==
    /\ Returned
    /\ Len(calls) = 3
    /\ calls[1].stage = "paddle"
    /\ calls[2].stage = "led_paddle"
    /\ calls[3].stage = "led_tesseract"
    /\ calls[3].weight = 23450
    /\ ret.weight = 23450

\* C4: a call on a decoded image returns either the weight of the stage that
\* found one, or no value after every available stage was tried and yielded
\* nothing; a PaddleOCR exception counts as that stage yielding nothing.
C4_GracefulDegradation ==
    (pc = "done" /\ image = "decoded") =>
        \/ /\ ret.weight # None
           /\ calls # <<>>
           /\ ret.weight = Last(calls).weight
        \/ /\ ret.weight = None
           /\ StagesAvailable \subseteq StagesInvoked
           /\ \A i \in 1..Len(calls) : calls[i].weight = None

C4_Witness ==
    /\ pc = "done"
    /\ calls # <<>>
    /\ calls[1].stage = "paddle"
    /\ calls[1].raised
    /\ Last(calls).stage = "tesseract"
    /\ ret.weight = 23450

\* C5: when the text holds a labeled value (the keyword, a delimiter, 3 to 5
\* digits) and an unrelated bare number that is in range and larger, the
\* parser returns the labeled value.
C5_TierPrecedence ==
    ppc = "parsed" =>
        \A i \in LabeledStarts(ptext) :
            ( /\ \A k \in LabeledStarts(ptext) : i <= k
              /\ WithinConfigured(RunValue(ptext, i))
              /\ \E j \in BareStarts(ptext) :
                    /\ WithinConfigured(RunValue(ptext, j))
                    /\ RunValue(ptext, j) > RunValue(ptext, i) )
            => presult.weight = RunValue(ptext, i)

\* C6: for a text of several numbers, each followed by "kg" and none labeled,
\* the parser returns the largest of those that are in range.
C6_MaxOfUnitMarked ==
    (ppc = "parsed" /\ UnitMarkedOnly(ptext)) =>
        LET inRange == {v \in {RunValue(ptext, i) : i \in DigitRunStarts(ptext)} :
                           WithinConfigured(v)} IN
        inRange # {} => presult.weight = SetMax(inRange)

C6_Witness ==
    /\ ppc = "parsed"
    /\ ptext = T12000 \o Tkgs \o T23450 \o Tkgs
    /\ presult.weight = 23450

\* C7: a number outside [MIN_WEIGHT, MAX_WEIGHT] is never the parser's answer
\* and is not clamped into the range: each candidate is in range, and a text
\* whose only number is out of range yields no value and no candidate.
C7_OutOfRangeRejected ==
    ppc = "parsed" =>
        /\ presult.weight # None => WithinConfigured(presult.weight)
        /\ \A k \in 1..Len(presult.candidates) : WithinConfigured(presult.candidates[k])
        /\ \A i \in DigitRunStarts(ptext) :
              (DigitRunStarts(ptext) = {i} /\ ~WithinConfigured(RunValue(ptext, i))) =>
                  (presult.weight = None /\ presult.candidates = <<>>)

C7_Witness ==
    /\ ppc = "parsed"
    /\ ptext = T999999
    /\ presult.weight = None

\* C8: the parser reads the text through the substitution table
\* {O,o}->0, {l,I}->1, {S,s}->5, so that "2345O" gives the candidate 23450.
C8_DigitConfusion ==
    (ppc = "parsed" /\ \A k \in 1..Len(ptext) : ptext[k] \in Digit \cup {"O"}) =>
        /\ presult = _parse_weight(Substitute(ptext))
        /\ ptext = T2345 \o <<"O">> =>
              \E k \in 1..Len(presult.candidates) : presult.candidates[k] = 23450

\* C9: when the image decodes and every OCR attempt returns empty text, the
\* call returns no value, the guidance message and no candidates, whichever
\* optional stages are enabled.
C9_EmptyTextFails ==
    ( /\ Returned
      /\ image = "decoded"
      /\ OcrCalls # {}
      /\ \A i \in OcrCalls : calls[i].empty )
    => (ret.weight = None /\ ret.status = MsgGuidance /\ details.candidates = <<>>)

\* C10: a returned status message is empty exactly when a weight is returned.
C10_StatusAgreesWithWeight ==
    Returned => (ret.status = "" <=> ret.weight # None)

C10_Witness ==
    /\ Returned
    /\ ret.weight = None
    /\ ret.status = MsgError("")
    /\ details.error = ""

\* C11: when an exception reaches the except clause of
\* extract_weight_from_image, the call returns no weight and details.error is
\* the exception's text; details.error is None on every success and on the
\* ordinary failure that ends with the guidance message.
C11_ExceptionConversion ==
    Returned =>
        /\ exc # NoneStr => (ret.weight = None /\ details.error = exc)
        /\ ret.weight # None => details.error = NoneStr
        /\ ret.status = MsgGuidance => details.error = NoneStr

C11_Witness ==
    /\ Returned
    /\ exc = "cv2.error"
    /\ ret = [weight |-> None, status |-> MsgError("cv2.error")]
    /\ details.error = exc

\* C12: a path that does not exist and a file that cannot be decoded end the
\* call at once: it has returned no weight and no OCR backend and no
\* disambiguator has been invoked for that photo.
C12_InputErrorsTerminal ==
    image \in {"missing", "undecodable"} =>
        /\ pc = "done"
        /\ ret.weight = None
        /\ calls = <<>>

C12_Witness ==
    /\ image = "missing"
    /\ ret = [weight |-> None, status |-> MsgNotFound]
    /\ calls = <<>>

\* C13: the disambiguator is not invoked when no credential is configured, and
\* when it is invoked and gives no weight (it raised, or its reply holds no
\* number in its range) the call returns what it returns with the
\* disambiguator disabled: no weight, the guidance message, details.error None
\* and method "none".
C13_DisambiguatorOptional ==
    /\ ~OPENAI_AVAILABLE => "gpt" \notin StagesInvoked
    /\ (Returned /\ calls # <<>> /\ Last(calls).stage = "gpt" /\ Last(calls).weight = None) =>
          /\ ret = [weight |-> None, status |-> MsgGuidance]
          /\ details.error = NoneStr
          /\ details.method = "none"

C13_Witness ==
    /\ Returned
    /\ OPENAI_AVAILABLE
    /\ calls # <<>>
    /\ Last(calls).stage = "gpt"
    /\ Last(calls).raised
    /\ ret.status = MsgGuidance

\* The text is two or more runs of 4 or 5 digits with only whitespace between
\* and around them.
BareRunsOnly(text) ==
    /\ Cardinality(DigitRunStarts(text)) >= 2
    /\ \A k \in 1..Len(text) : text[k] \in Digit \cup Whitespace
    /\ \A i \in DigitRunStarts(text) : RunEnd(text, i) - i + 1 \in 4..5

\* C15: in a text of several bare runs of 4 or 5 digits separated only by
\* whitespace, each run is a candidate of its own and the parser returns the
\* largest run within [MIN_WEIGHT, MAX_WEIGHT] (no value if there is none).
C15_ContextTier ==
    (ppc = "parsed" /\ BareRunsOnly(ptext)) =>
        LET inRange == {RunValue(ptext, i) : i \in
                           {j \in DigitRunStarts(ptext) : WithinConfigured(RunValue(ptext, j))}} IN
        /\ presult.weight = IF inRange = {} THEN None ELSE SetMax(inRange)
        /\ \A v \in inRange : \E k \in 1..Len(presult.candidates) : presult.candidates[k] = v

\* The only digits of the text are one bare run (no keyword before it, no "kg"
\* after it) of 1 to 3 digits.
ShortBareRunOnly(text) ==
    \E i \in BareStarts(text) :
        /\ DigitRunStarts(text) = {i}
        /\ RunEnd(text, i) - i + 1 \in 1..3

\* C16: a bare digit run is a candidate only if it has at least 4 digits:
\* whatever range is configured, a text whose only digits are one bare run of
\* 1 to 3 digits yields no value and no candidate.
C16_MinDigitRun ==
    (ppc = "parsed" /\ ShortBareRunOnly(ptext)) =>
        (presult.weight = None /\ presult.candidates = <<>>)

\* The names extract_weight_from_image gives to details.method: the backends.
BackendTags == {"paddle", "cv2", "tesseract", "gpt", "none"}

\* C19: when the only text recognized on the photo is "BRUTTO 23450 KG", the
\* call returns the weight 23450 with an empty status, and details.method
\* names the labeled-value tier of the parser (not a backend).
C19_EndToEndLabeled ==
    (Returned /\ Len(calls) = 1 /\ calls[1].stage = "paddle" /\ Strip(details.text) = TBrutto) =>
        /\ ret = [weight |-> 23450, status |-> ""]
        /\ details.method \notin BackendTags

\* The name details.method takes for the stage that found the weight.
MethodOf(stage) ==
    CASE stage = "paddle" -> "paddle"
      [] stage \in {"led_paddle", "led_tesseract", "contours"} -> "cv2"
      [] stage = "tesseract" -> "tesseract"
      [] stage = "gpt" -> "gpt"

\* C20: on every return, a weight is returned exactly when details.method is
\* not "none", and then method names the stage that produced the weight, the
\* weight is one of details.candidates and is their maximum; when no weight is
\* returned, details.candidates is empty.
C20_DiagnosticsConsistent ==
    Returned =>
        /\ ret.weight # None <=> details.method # "none"
        /\ ret.weight # None =>
              /\ calls # <<>>
              /\ details.method = MethodOf(Last(calls).stage)
              /\ \E k \in 1..Len(details.candidates) : details.candidates[k] = ret.weight
              /\ \A k \in 1..Len(details.candidates) : details.candidates[k] <= ret.weight
        /\ ret.weight = None => details.candidates = <<>>

C20_Witness ==
    /\ Returned
    /\ details.method = "paddle"
    /\ details.candidates = <<23450, 120>>
    /\ ret.weight = 23450

\* The state of a phone after the step.
StateAfter(phone) == DictGet(user_states', phone, NoState).state

\* C17: when a driver whose state is awaiting_photo sends through the webhook
\* a media message carrying a download URL, and the download does not fail,
\* the photo is passed to extract_weight_from_image and the state becomes
\* awaiting_confirmation if a weight is returned and awaiting_manual_weight
\* if it is absent.
C17_PhotoStep ==
    [][(/\ last'.via = "webhook"
        /\ last'.media
        /\ last'.url
        /\ get_user_state(World, last'.phone).state = "awaiting_photo"
        /\ last'.photo # "failed")
       => /\ last'.photo = "extracted"
          /\ StateAfter(last'.phone) = IF last'.ocr # None
                                       THEN "awaiting_confirmation"
                                       ELSE "awaiting_manual_weight"]_vars

\* C18: a weighing row is persisted only by a step of a phone whose driver is
\* registered and has, in this order, started a report, supplied a client
\* name, obtained a weight from a photo or by typing it, and now answers the
\* confirmation with yes; the row is that phone's.
C18_ScriptOrdering ==
    [][Len(weighings') > Len(weighings)
       => LET phone == last'.phone
              state == get_user_state(World, phone)
              row == weighings'[Len(weighings')] IN
          /\ Len(weighings') = Len(weighings) + 1
          /\ row.driver_phone = phone
          /\ is_driver_registered(World, phone)
          /\ progress[phone] = 3
          /\ state.state = "awaiting_confirmation"
          /\ "client_name" \in DOMAIN state.temp_data
          /\ "current_weight" \in DOMAIN state.temp_data
          /\ row.current_weight = state.temp_data["current_weight"]
          /\ last'.yes]_vars

C18_Witness ==
    /\ Len(weighings) = 1
    /\ last.yes
    /\ last.reply = "report saved and sent"
    /\ weighings[1].driver_phone = last.phone
    /\ weighings[1].current_weight = 23450

\* The stages that read the colour-isolated LED region, and those that read
\* the contrast-enhanced whole image or the contours cut from it.
LedStages == {"led_paddle", "led_tesseract"}

WholeImageStages == {"paddle", "contours", "tesseract"}

\* C21: the colour-isolated LED region is read before the contrast-enhanced
\* whole image (no whole-image stage is invoked before a stage on the LED
\* region), and a later variant is attempted only if every earlier one gave
\* no in-range value.
C21_VariantPriority ==
    /\ \A i, j \in 1..Len(calls) :
          (calls[i].stage \in WholeImageStages /\ calls[j].stage \in LedStages) => j < i
    /\ \A i \in 1..(Len(calls) - 1) : calls[i].weight = None

\* The position of pc in the body of extract_weight_from_image.
PcRank(p) ==
    CASE p = "idle" -> 0 [] p = "paddle" -> 1 [] p = "cv2_led" -> 2
      [] p = "cv2_led_paddle" -> 3 [] p = "cv2_led_tesseract" -> 4
      [] p = "cv2_contours" -> 5 [] p = "tesseract" -> 6 [] p = "gpt" -> 7
      [] p = "done" -> 8 [] OTHER -> 9

Running == pc \notin {"idle", "done", "off"}

\* C22: a call that is under way always moves forward through the stages,
\* invokes each stage at most once and never an earlier one again, and
\* reaches its terminal result, every backend call returning or raising.
C22_LinearTermination ==
    /\ [][Running => PcRank(pc') > PcRank(pc)]_vars
    /\ [](\A i, j \in 1..Len(calls) :
             i < j => StageRank(calls[i].stage) < StageRank(calls[j].stage))
    /\ (Running ~> pc = "done")

C22_Witness ==
    /\ Returned
    /\ ret.weight = None
    /\ Len(calls) = 6
    /\ \A i \in 1..6 : StageRank(calls[i].stage) = i

\* The texts of the detections of a PaddleOCR answer that have a confidence of
\* minConf or more and, if digits are asked for, hold a digit; each stripped
\* and followed by a space.
RECURSIVE TextOf(_, _, _)
TextOf(items, minConf, digits) ==
    IF items = <<>> THEN <<>>
    ELSE LET t == Strip(Head(items).text)
             rest == TextOf(Tail(items), minConf, digits) IN
         IF Head(items).text # <<>> /\ Head(items).conf >= minConf /\ (digits => HasDigit(t))
         THEN t \o <<" ">> \o rest
         ELSE rest

\* C23: when the digit-bearing segments of confidence 0.35 or more parse to an
\* in-range weight, _extract_with_paddle returns that weight, whatever the
\* segments of lower confidence hold; all segments are parsed only when the
\* confident ones yield nothing.
C23_ConfidenceHonoured ==
    (ppc = "read" /\ pout.kind = "ok") =>
        LET confident == _parse_weight(TextOf(pout.v, ConfThreshold, TRUE)).weight
            all == _parse_weight(TextOf(pout.v, 0, FALSE)).weight IN
        presult.weight = IF confident # None THEN confident ELSE all

C23_Witness ==
    /\ ppc = "read"
    /\ pout = Ok(<<[text |-> T120, conf |-> 90], [text |-> T23450, conf |-> 0]>>)
    /\ presult.weight = 120

\* The text is one number: digits, with dots and commas between them.
OneNumber(text) ==
    /\ text # <<>>
    /\ \A k \in 1..Len(text) : text[k] \in Digit \cup {".", ","}
    /\ text[1] \in Digit
    /\ text[Len(text)] \in Digit

\* C24: the dots and commas inside a number are removed, not read as a
\* decimal point: a number written with them parses to the value of its
\* digits alone ('23.450' and '23,450' to 23450) if that is in range, and to
\* nothing otherwise.
C24_SeparatorsRemoved ==
    (ppc = "parsed" /\ OneNumber(ptext)) =>
        LET v == Float(SelectSeq(ptext, IsDigit)) IN
        /\ presult.weight = IF WithinConfigured(v) THEN v ELSE None
        /\ presult.candidates = IF WithinConfigured(v) THEN <<v>> ELSE <<>>

C24_Witness ==
    /\ ppc = "parsed"
    /\ ptext \in {T23 \o <<".">> \o T450, T23 \o <<",">> \o T450}
    /\ presult.weight = 23450

\* The trial readings of the rotated copies of the photo, one for each of
\* the angles 0, 90, 180, 270.
OrientationTrials == {i \in 1..Len(calls) : calls[i].stage = "orientation"}

\* C25: before the photo is read, its four rotations are scored by a trial
\* reading each, and the stages read the rotation of the highest score (the
\* first in the order 0, 90, 180, 270; the original if all score zero): the
\* first reading of the whole image comes after four trial readings.
C25_OrientationTieBreak ==
    \A i \in 1..Len(calls) :
        calls[i].stage = "paddle" =>
            /\ Cardinality(OrientationTrials) = 4
            /\ \A k \in OrientationTrials : k < i

\* The last step handled a media message with a download URL that the
\* webhook delivered while the phone was in the given state.
WebhookPhotoIn(state) ==
    /\ last'.via = "webhook"
    /\ last'.media
    /\ last'.url
    /\ get_user_state(World, last'.phone).state = state

\* C26: a photo sent through the webhook while the state is
\* awaiting_manual_weight is handled by handle_photo_received, not rejected
\* as unwanted.
C26_RetakeAccepted ==
    [][WebhookPhotoIn("awaiting_manual_weight") =>
          /\ last'.reply # "photos are not needed now: send text"
          /\ last'.photo \in {"extracted", "failed"}]_vars

\* C27: send_report_to_group is invoked only in the step in which
\* save_weighing stored the row of that confirmation; when a confirmation
\* with yes stores no row, nothing goes to the group and the state and its
\* temp_data stay as they were.
C27_GroupAfterPersistence ==
    [][LET phone == last'.phone
           confirming == /\ get_user_state(World, phone).state = "awaiting_confirmation"
                         /\ last'.yes
                         /\ ~last'.media IN
       /\ last'.group # "none" =>
             /\ confirming
             /\ Len(weighings') = Len(weighings) + 1
             /\ SubSeq(weighings', 1, Len(weighings)) = weighings
             /\ Last(weighings').driver_phone = phone
       /\ (confirming /\ weighings' = weighings) =>
             /\ last'.group = "none"
             /\ user_states' = user_states]_vars

C27_Witness ==
    /\ last.group = "text"
    /\ last.yes
    /\ Len(weighings) = 1
    /\ weighings[1].driver_phone = last.phone
    /\ last.phone \notin DOMAIN user_states

\* The name a registration in progress holds was an accepted one.
AcceptedName(temp_data) ==
    /\ "full_name" \in DOMAIN temp_data
    /\ Len(temp_data["full_name"]) >= 3

\* The phone number a registration in progress holds was an accepted one.
AcceptedPhone(temp_data) ==
    /\ "personal_phone" \in DOMAIN temp_data
    /\ Len(temp_data["personal_phone"]) >= 6
    /\ \A i \in 1..Len(temp_data["personal_phone"]) : IsDigit(temp_data["personal_phone"][i])

\* The texts of TextPool that process_message takes for no command.
PlainTexts == {t \in TextPool : Lower(Strip(t)) \notin {T0, TMenu, T3, TRegistration}}

ManualTexts ==
    TextPool \cup {T50, T999999, T23450 \o Tkg, Tkg, <<"1", ".", "2", ".", "3">>}

\* The texts process_message takes for a command of a registered driver.
IsCommand(t) == Lower(Strip(t)) \in {T0, TMenu, T1, T2, T3, TRegistration}

\* The number the digits of a typed text without a fraction stand for; None
\* when float() has nothing to read.
TypedWeight(t) ==
    IF SelectSeq(t, IsDigit) = <<>> \/ Len(SelectSeq(t, IsDigitOrDot)) - Len(SelectSeq(t, IsDigit)) > 1
    THEN None
    ELSE Float(SelectSeq(t, IsDigit))

TextMessage(t) == [kind |-> "text", text |-> t, data |-> NoneData]

\* The keys of temp_data a typed weight writes.
WeightKeys ==
    {"current_weight", "photo_received", "previous_weight", "weight_difference",
     "weight_manual_input"}

\* What a text typed in awaiting_manual_weight does when taken as a weight: a
\* number w with 100 <= w <= 150000 leads to awaiting_confirmation with
\* current_weight = w, the other keys of temp_data kept; any other text leaves
\* user_states as it was; drivers and weighings stay in both cases.
ManualEntry(p, t) ==
    \A w \in webhook(World, p, TextMessage(t)) :
        LET typed == TypedWeight(t)
            before == get_user_state(World, p)
            after == get_user_state(w, p) IN
        /\ w.drivers = drivers
        /\ w.weighings = weighings
        /\ IF typed # None /\ 100 <= typed /\ typed <= 150000
           THEN /\ after.state = "awaiting_confirmation"
                /\ WeightKeys \subseteq DOMAIN after.temp_data
                /\ after.temp_data["current_weight"] = typed
                /\ after.temp_data["weight_manual_input"]
                /\ \A k \in DOMAIN before.temp_data \ WeightKeys :
                       k \in DOMAIN after.temp_data /\ after.temp_data[k] = before.temp_data[k]
                /\ w.reply = "confirm the report (weight typed)"
           ELSE /\ w.user_states = user_states
                /\ w.reply = IF typed = None THEN "not a number: write one, or send a new photo"
                             ELSE IF typed < 100 THEN "the weight is too small"
                             ELSE "the weight is too large"

AnswerTexts ==
    TextPool \cup {<<"y", "e", "s">>, <<"n", "o">>, <<"N">>, <<" ", "Y", " ">>, T50, Tkg}

\* What an answer given in awaiting_confirmation does: a no clears the state of
\* the phone and stores no row; an answer that is neither leaves the tables as
\* they were; a yes either stores one row and clears the state, or stores
\* none (the statement failed) and leaves the tables as they were.
ConfirmationOutcome(p, t) ==
    \A w \in webhook(World, p, TextMessage(t)) :
        LET answer == Lower(Strip(t)) IN
        /\ w.drivers = drivers
        /\ \A q \in Phones \ {p} : get_user_state(w, q) = get_user_state(World, q)
        /\ IF answer \in NoWords
           THEN /\ p \notin DOMAIN w.user_states
                /\ w.weighings = weighings
                /\ w.group = "none"
           ELSE IF answer \notin YesWords
           THEN /\ w.user_states = user_states
                /\ w.weighings = weighings
                /\ w.group = "none"
           ELSE \/ /\ Len(w.weighings) = Len(weighings) + 1
                   /\ SubSeq(w.weighings, 1, Len(weighings)) = weighings
                   /\ p \notin DOMAIN w.user_states
                \/ /\ w.weighings = weighings
                   /\ w.user_states = user_states
                   /\ w.group = "none"

MenuTexts == {T0, TMenu, <<" ">> \o T0, TMenu \o <<" ", "\n">>}

RegisteredStates == ReportStates \cup {"changing_truck"}

\* C33: in every reachable state a phone whose dialog state is awaiting_client,
\* awaiting_photo, awaiting_manual_weight, awaiting_confirmation or
\* changing_truck belongs to a registered driver; and no step takes
\* is_registered = 1 away from a driver.
C33_ReportStatesRegistered ==
    /\ [](\A p \in Phones :
            get_user_state(World, p).state \in RegisteredStates =>
                is_driver_registered(World, p))
    /\ [][\A p \in Phones :
            is_driver_registered(World, p) =>
                (p \in DOMAIN drivers' /\ drivers'[p].is_registered = 1)]_vars

\* A registered driver has just changed the truck number and is still
\* registered, while the other, registered too, is confirming a report.
C33_Witness ==
    /\ last.reply = "truck number changed"
    /\ is_driver_registered(World, last.phone)
    /\ \E q \in Phones \ {last.phone} :
          /\ get_user_state(World, q).state = "awaiting_confirmation"
          /\ is_driver_registered(World, q)

\* Texts a driver may send while registering again.
RegistrationTexts == TextPool \cup {TMenu, TRegistration, T50, T999999, Tkg, T23450 \o Tkg}

\* The text completes the truck step: no command, 3 characters at least.
CompletesTruckStep(state, t) ==
    /\ state = "registration_truck"
    /\ Lower(Strip(t)) \notin {T0, TMenu, T3, TRegistration}
    /\ Len(Strip(Upper(t))) >= 3

\* C34: for a registered driver, the text 3 that starts the registration again
\* changes no drivers row, and a text received in a registration state changes
\* none either unless it completes the truck step; the row then written holds
\* the name and phone number given in this registration, the truck number and
\* is_registered = 1, and the rows of the other drivers are as before.
C34_AbortedReRegistration ==
    \A p \in Phones :
        is_driver_registered(World, p) =>
            LET s == get_user_state(World, p) IN
            \A t \in RegistrationTexts :
                \A w \in webhook(World, p, TextMessage(t)) :
                    /\ (/\ Lower(Strip(t)) = T3 \/ s.state \in RegistrationStates
                        /\ ~CompletesTruckStep(s.state, t)) =>
                           /\ w.drivers = drivers
                           /\ w.weighings = weighings
                    /\ (s.state \in RegistrationStates /\ w.drivers # drivers) =>
                           /\ CompletesTruckStep(s.state, t)
                           /\ w.reply = "registration complete"
                           /\ DOMAIN w.drivers = DOMAIN drivers
                           /\ \A q \in DOMAIN drivers \ {p} : w.drivers[q] = drivers[q]
                           /\ w.drivers[p] =
                                  [full_name |-> s.temp_data["full_name"],
                                   personal_phone |-> s.temp_data["personal_phone"],
                                   truck_number |-> Strip(Upper(t)),
                                   is_registered |-> 1]

\* A registered driver registering again has just given a phone number that
\* was refused; the row of the driver is there, registered.
C34_Witness ==
    /\ last.reply = "wrong phone number: enter it again"
    /\ get_user_state(World, last.phone).state = "registration_phone"
    /\ is_driver_registered(World, last.phone)
    /\ drivers[last.phone].truck_number # <<>>

\* C35: whenever a phone is in awaiting_confirmation its temp_data holds a
\* truck_number that is not empty, a client_name of 2 characters at least and
\* a current_weight; and every stored weighing has a truck number that is not
\* empty, a client name of 2 characters at least and a weight that is not 0.
C35_ConfirmationComplete ==
    /\ \A p \in Phones :
          LET s == get_user_state(World, p) IN
          s.state = "awaiting_confirmation" =>
              /\ {"truck_number", "client_name", "current_weight"} \subseteq DOMAIN s.temp_data
              /\ s.temp_data["truck_number"] # <<>>
              /\ Len(s.temp_data["client_name"]) >= 2
              /\ s.temp_data["current_weight"] # None
              /\ WeighingData(World, p).current_weight = s.temp_data["current_weight"]
              /\ WeighingData(World, p).truck_number = s.temp_data["truck_number"]
    /\ \A i \in 1..Len(weighings) :
          /\ weighings[i].truck_number # <<>>
          /\ Len(weighings[i].client_name) >= 2
          /\ weighings[i].current_weight # 0

\* A report confirmed with the weight read from the photo has been stored
\* while the other driver is asked to confirm a typed weight.
C35_Witness ==
    /\ Len(weighings) = 1
    /\ weighings[1].current_weight = 23450
    /\ weighings[1].truck_number # <<>>
    /\ \E p \in Phones :
          /\ get_user_state(World, p).state = "awaiting_confirmation"
          /\ get_user_state(World, p).temp_data["current_weight"] = 100000

\* The rows of a truck, by position in the table (the order of saving).
RowsOf(truck_number) == {i \in 1..Len(weighings) : weighings[i].truck_number = truck_number}

\* The row saved last among the rows of a set that is not empty.
Latest(rows) == CHOOSE i \in rows : \A j \in rows : j <= i

\* C36: each row's previous_weight is the current_weight of the row saved
\* just before it for the same truck (0 for the first), its weight_difference
\* is current_weight - previous_weight, and get_last_weight of a truck with
\* rows returns the current_weight of the row saved last.
C36_WeighingChain ==
    /\ \A i \in 1..Len(weighings) :
          LET before == {j \in RowsOf(weighings[i].truck_number) : j < i} IN
          /\ weighings[i].previous_weight =
                 IF before = {} THEN 0 ELSE weighings[Latest(before)].current_weight
          /\ weighings[i].weight_difference =
                 weighings[i].current_weight - weighings[i].previous_weight
    /\ \A truck_number \in Trucks :
          RowsOf(truck_number) # {} =>
              get_last_weight(World, truck_number) =
                  {weighings[Latest(RowsOf(truck_number))].current_weight}

\* C37: every truck with a stored weighing has a row in vehicles, and its
\* last_weight is the current_weight of the weighing stored last for it.
C37_VehicleFollows ==
    \A i \in 1..Len(weighings) :
        LET truck_number == weighings[i].truck_number IN
        /\ get_vehicle(World, truck_number) # NoVehicle
        /\ get_vehicle(World, truck_number).last_weight =
               weighings[Latest(RowsOf(truck_number))].current_weight

\* C38: when a confirmation stores a weighing, the previous weight and the
\* difference kept in temp_data since the weight became known (the ones the
\* confirmation message showed and the group report shows) are the
\* previous_weight and weight_difference of the stored row.
C38_ShownIsStored ==
    [][Len(weighings') = Len(weighings) + 1 =>
          LET shown == get_user_state(World, last'.phone).temp_data
              row == weighings'[Len(weighings')] IN
          /\ row.previous_weight = shown["previous_weight"]
          /\ row.weight_difference = shown["weight_difference"]]_vars

\* The two deliveries have been handled to the end.
RaceOver == race # NoRace /\ \A t \in {1, 2} : race.th[t].pc = "done"

\* The state of the driver when the two deliveries arrived.
StateAtDelivery == DictGet(race.start.user_states, Driver, NoState).state

\* C39: the deliveries that meet one awaiting_confirmation store one weighing
\* row at most and send one group report at most, two yes answers handled
\* side by side included.
C39_AtMostOnce ==
    (race # NoRace /\ StateAtDelivery = "awaiting_confirmation") =>
        /\ Len(weighings) <= Len(race.start.weighings) + 1
        /\ race.sent <= 1

\* The user states the two messages leave when one is handled to the end
\* before the other is begun.
SerialStates(first, second) ==
    UNION {{get_user_state(w2, Driver) :
               w2 \in webhook([World EXCEPT !.drivers = w1.drivers,
                                            !.user_states = w1.user_states,
                                            !.weighings = w1.weighings,
                                            !.vehicles = w1.vehicles],
                              Driver, RaceMessage(second))} :
           w1 \in webhook([World EXCEPT !.drivers = race.start.drivers,
                                        !.user_states = race.start.user_states,
                                        !.weighings = race.start.weighings,
                                        !.vehicles = race.start.vehicles],
                          Driver, RaceMessage(first))}

\* C40: when the two deliveries have been handled, the user state of the
\* phone is one that handling them one after the other, in one of the two
\* orders, can leave.
C40_Serializable ==
    RaceOver =>
        get_user_state(World, Driver) \in
            SerialStates(race.th[1].msg, race.th[2].msg)
            \cup SerialStates(race.th[2].msg, race.th[1].msg)

====
